---- MODULE Spec2Model ----
(***************************************************************************)
(* Model of the per-chat session orchestrator of src/index.ts (stored as   *)
(* src/unnamed/part_002): the chat state record, the prompt dispatcher of  *)
(* bot.on('message'), the event sequencer (enqueueSessionEvent,            *)
(* processEventQueue, handleSessionEvent) and the session lifecycle        *)
(* (startSession and its callers /reset, cmd_reset, /model, set_dir).      *)
(*                                                                         *)
(* Every `await` of the source is a step boundary: an action runs one      *)
(* synchronous segment of a handler, from the resumption of an await to    *)
(* the next await.  The assistant session, the assistant client and the    *)
(* chat transport are the environment: their promises resolve or reject    *)
(* nondeterministically.                                                   *)
(***************************************************************************)
EXTENDS Naturals, Sequences, FiniteSets, TLC

\* ---------------------------------------------------------------- bounds
\* Number of prompts (text messages) the user submits in one run.
MaxPrompts == 3
\* Number of lifecycle requests (set_dir, /model, /reset, cmd_reset) in one
\* run.  Every request creates at most one assistant client, so a request's
\* number also names the client and the session it creates.
MaxOps == 2
\* Prompts submitted in the behaviours with overlapping lifecycle requests.
OverlapPrompts == 1
\* Prompts submitted in the behaviours with two chats.
PairPrompts == 2

Chats == {1, 2}
\* The chats that receive input under Spec.
SoloChats == {1}
Dirs == {1, 2}
Models == {1, 2}
\* const defaultModel = process.env.COPILOT_MODEL || 'gpt-5-mini'
defaultModel == 1
\* Entries of the pool of session markers (18 in the program), and the chats
\* that get a state in the behaviours about the markers.
PoolSize == 3
\* Images attached in the behaviours about images.
MaxImages == 2
\* Prompts submitted in those behaviours.
ImagePrompts == 2
\* Longest text split, and largest chunk length asked for.
MaxText == 12
MaxSplitLen == 11

\* The tool calls of a behaviour, each with one start and one complete event.
MaxTools == 2
Tools == 1 .. MaxTools
\* Reveal requests made in a behaviour.
MaxReveals == 2

\* Models offered in the behaviours about the recent models.
MaxModels == 3

MarkerChats == 1 .. 4
\* const sessionEmojis = [...], in the order of the array
sessionEmojis == 1 .. PoolSize

VARIABLES
  chatStates,   \* Map<number, ChatState>: a function on the chats that have a state
  cwd,          \* process.cwd(): 0 before the first chdir
  ops,          \* per chat, the lifecycle handlers in progress, oldest first
  drains,       \* per chat, the activations of processEventQueue, oldest first
  msgTasks,     \* message handlers suspended at session.send or at the error report
  turns,        \* turns the session accepted: [c, p, s, msg, idle]; msg, idle: the
                \* events it has emitted; the turn has ended once idle is TRUE
  live,         \* assistant sessions created and not yet destroyed
  subm,         \* history: per prompt (its number is its index), how it was received
  sent,         \* history: per chat, the prompts handed to session.send, in order
  opsUsed,      \* lifecycle requests issued so far
  fullToolResults,  \* Map<string, ...>: the result keys that hold a stored result
  callbacks,    \* show_result handlers suspended between the lookup and the delete
  toolLog       \* history: per tool, its events handled and its result's reveals

toolVars == <<fullToolResults, callbacks, toolLog>>

vars == <<chatStates, cwd, ops, drains, msgTasks, turns, live, subm, sent, opsUsed, toolVars>>

\* ------------------------------------------------------------ chat state
\* The ChatState literal of startSession / the /dirs, /model handlers.
NewChatState(model) ==
  [client |-> 0, session |-> 0, dir |-> 0, model |-> model, busy |-> FALSE,
   queue |-> <<>>, resetting |-> FALSE, currentPrompt |-> 0,
   awaitingFinal |-> FALSE, pendingCompletion |-> FALSE,
   eventQueue |-> <<>>, processingEvents |-> FALSE, turnCount |-> 0,
   images |-> <<>>, toolStartMessages |-> {}]

Has(c) == c \in DOMAIN chatStates

\* One state object shared by all chats.
PutAll(c, st) == [x \in DOMAIN chatStates \cup {c} |-> st]

\* chatStates.set(chatId, state), and every assignment to a field of the
\* state object of chat c.
Put(c, st) == [x \in DOMAIN chatStates \cup {c} |-> IF x = c THEN st ELSE chatStates[x]]

RemoveAt(seq, i) == [j \in 1..(Len(seq) - 1) |-> IF j < i THEN seq[j] ELSE seq[j + 1]]

\* What is recorded of tool t: whether its start event and its complete event
\* have been taken up, whether the handler of the complete event has returned,
\* how often a reveal of its result was asked for and how often it was sent.
NewToolLog ==
  [started |-> FALSE, completing |-> FALSE, completed |-> FALSE, asked |-> 0, shown |-> 0]

\* No tool has run: nothing stored, no reveal in progress.
NoTools ==
  /\ fullToolResults = {}
  /\ callbacks = {}
  /\ toolLog = [t \in Tools |-> NewToolLog]

Init ==
  /\ chatStates = <<>>
  /\ cwd = 0
  /\ ops = [c \in Chats |-> <<>>]
  /\ drains = [c \in Chats |-> <<>>]
  /\ msgTasks = {}
  /\ turns = {}
  /\ live = {}
  /\ subm = <<>>
  /\ sent = [c \in Chats |-> <<>>]
  /\ opsUsed = 0
  /\ NoTools

\* ------------------------------------------------------ prompt dispatcher
\* The dispatcher without its resetting guard.
ReceiveNoResetGuard(st) ==
  IF st.session = 0 \/ st.dir = 0 THEN "nosession"
  ELSE IF st.busy THEN "queued"
  ELSE "direct"

\* The dispatcher without its session and directory guard.
ReceiveNoSessionGuard(st) ==
  IF st.resetting THEN "resetting"
  ELSE IF st.busy THEN "queued"
  ELSE "direct"

\* bot.on('message'): the guards and the busy test that decide what happens
\* to a text prompt.
Receive(st) ==
  IF st.session = 0 \/ st.dir = 0 THEN "nosession"
  ELSE IF st.resetting THEN "resetting"
  ELSE IF st.busy THEN "queued"
  ELSE "direct"

\* The busy branch putting the prompt at the front of the queue.
EnqueueFront(st, p) == [st EXCEPT !.queue = <<p>> \o @]

\* bot.on('message'), busy branch: state.queue.push(captionOrText)
Enqueue(st, p) == [st EXCEPT !.queue = Append(@, p)]

\* appendImagesToPrompt: the text handed to session.send, kept as what it is
\* made of: the prompt, followed by the numbered list of the images (nothing
\* is added for an empty list).
appendImagesToPrompt(prompt, images) == [prompt |-> prompt, images |-> images]

\* No text: the handler is not at a send.
NoText == appendImagesToPrompt(0, <<>>)

\* The assignments before session.send without the turn count.
SendNowNoCount(st, p) ==
  [st EXCEPT !.busy = TRUE, !.currentPrompt = p, !.awaitingFinal = TRUE,
             !.pendingCompletion = FALSE]

\* bot.on('message'), idle branch: the assignments made before session.send
SendNow(st, p) ==
  [st EXCEPT !.busy = TRUE, !.currentPrompt = p, !.awaitingFinal = TRUE,
             !.pendingCompletion = FALSE, !.turnCount = @ + 1]

\* bot.on('message'), catch block after the error report
Rollback(st) ==
  [st EXCEPT !.busy = FALSE, !.currentPrompt = 0, !.awaitingFinal = FALSE]

\* What the history keeps of a submission: the chat and what its state was
\* when the message handler ran.
Seen(c) ==
  IF Has(c)
  THEN [c |-> c, session |-> chatStates[c].session # 0, dir |-> chatStates[c].dir # 0,
        resetting |-> chatStates[c].resetting, busy |-> chatStates[c].busy,
        images |-> chatStates[c].images]
  ELSE [c |-> c, session |-> FALSE, dir |-> FALSE, resetting |-> FALSE, busy |-> FALSE,
        images |-> <<>>]

\* A text message arrives for chat c: the handler runs to its first await.
\* The prompt's number is its position in the submission history.
SubmitPrompt(c) ==
  /\ Len(subm) < MaxPrompts
  /\ LET p == Len(subm) + 1
         how == IF Has(c) THEN Receive(chatStates[c]) ELSE "nosession"
     IN /\ subm' = Append(subm, Seen(c))
        /\ CASE how = "queued" ->
                  /\ chatStates' = Put(c, Enqueue(chatStates[c], p))
                  /\ UNCHANGED <<msgTasks, sent>>
             [] how = "direct" ->
                  /\ chatStates' = Put(c, SendNow(chatStates[c], p))
                  /\ msgTasks' = msgTasks \cup
                       {[c |-> c, p |-> p, s |-> chatStates[c].session, pc |-> "send",
                         text |-> appendImagesToPrompt(p, chatStates[c].images)]}
                  /\ sent' = [sent EXCEPT ![c] = Append(@, p)]
             [] OTHER -> UNCHANGED <<chatStates, msgTasks, sent>>
  /\ UNCHANGED <<cwd, ops, drains, turns, live, opsUsed, toolVars>>

NewTurn(c, p, s) == [c |-> c, p |-> p, s |-> s, msg |-> FALSE, idle |-> FALSE]

\* session.send resolves: the session accepted the prompt and the turn runs.
SendAccepted(t) ==
  /\ t.pc = "send"
  /\ t.s \in live
  /\ msgTasks' = msgTasks \ {t}
  /\ turns' = turns \cup {NewTurn(t.c, t.p, t.s)}
  /\ UNCHANGED <<chatStates, cwd, ops, drains, live, subm, sent, opsUsed, toolVars>>

\* session.send rejects: the catch block awaits the error report.
SendRejected(t) ==
  /\ t.pc = "send"
  /\ msgTasks' = (msgTasks \ {t}) \cup {[t EXCEPT !.pc = "report"]}
  /\ UNCHANGED <<chatStates, cwd, ops, drains, turns, live, subm, sent, opsUsed, toolVars>>

\* The error report was delivered: the rollback runs.
ReportDone(t) ==
  /\ t.pc = "report"
  /\ msgTasks' = msgTasks \ {t}
  /\ chatStates' = Put(t.c, Rollback(chatStates[t.c]))
  /\ UNCHANGED <<cwd, ops, drains, turns, live, subm, sent, opsUsed, toolVars>>

\* bot.sendMessage of the error report rejects: the handler ends in the catch
\* block, before the rollback.
ReportFails(t) ==
  /\ t.pc = "report"
  /\ msgTasks' = msgTasks \ {t}
  /\ UNCHANGED <<chatStates, cwd, ops, drains, turns, live, subm, sent, opsUsed, toolVars>>

\* --------------------------------------------------------- event sequencer
\* What a handler segment leaves behind: the chat state, where the handler is
\* suspended ("loop": it returned), and the prompt and session of a send.
Susp(st, pc, p, s) == [st |-> st, pc |-> pc, p |-> p, s |-> s]

\* The queue drain without its test of the session handle.
IdleDrainNoGuard(st) ==
  IF Len(st.queue) > 0
  THEN Susp([st EXCEPT !.queue = Tail(@), !.busy = TRUE, !.currentPrompt = Head(st.queue),
                       !.awaitingFinal = TRUE, !.pendingCompletion = FALSE,
                       !.turnCount = @ + 1],
            "idle_send", Head(st.queue), st.session)
  ELSE Susp(st, "loop", 0, 0)

\* handleSessionEvent, case 'session.idle', second if: pop and send the head.
IdleDrain(st) ==
  IF Len(st.queue) > 0
  THEN LET p == Head(st.queue)
           st1 == [st EXCEPT !.queue = Tail(@)]
       IN IF st1.session # 0
          THEN Susp([st1 EXCEPT !.busy = TRUE, !.currentPrompt = p,
                                !.awaitingFinal = TRUE, !.pendingCompletion = FALSE,
                                !.turnCount = @ + 1],
                    "idle_send", p, st1.session)
          ELSE Susp(st1, "loop", 0, 0)
  ELSE Susp(st, "loop", 0, 0)

\* handleSessionEvent, case 'session.idle', catch block after the error report
DrainRollback(st) ==
  [st EXCEPT !.busy = FALSE, !.currentPrompt = 0, !.awaitingFinal = FALSE]

\* An idle handler that issues the completion notice whether or not the final
\* answer is outstanding.
IdleSyncAlwaysNotice(st) ==
  LET st1 == [st EXCEPT !.busy = FALSE, !.currentPrompt = 0]
  IN IF Len(st1.queue) = 0
     THEN Susp(st1, "idle_status", 0, 0)
     ELSE IdleDrain(st1)

\* handleSessionEvent, case 'session.idle', up to the first await.
IdleSync(st) ==
  LET st1 == [st EXCEPT !.busy = FALSE, !.currentPrompt = 0]
  IN IF Len(st1.queue) = 0
     THEN IF st1.awaitingFinal
          THEN IdleDrain([st1 EXCEPT !.pendingCompletion = TRUE])
          ELSE Susp(st1, "idle_status", 0, 0)
     ELSE IdleDrain(st1)

\* A message handler that issues the deferred notice and keeps the deferral.
MessageKeepsPending(st) ==
  LET st1 == [st EXCEPT !.awaitingFinal = FALSE]
  IN IF st1.pendingCompletion /\ Len(st1.queue) = 0
     THEN Susp(st1, "msg_status", 0, 0)
     ELSE Susp(st1, "loop", 0, 0)

\* handleSessionEvent, case 'assistant.message', after sendLongMessage.
MessageAfterSend(st) ==
  LET st1 == [st EXCEPT !.awaitingFinal = FALSE]
  IN IF st1.pendingCompletion /\ Len(st1.queue) = 0
     THEN Susp([st1 EXCEPT !.pendingCompletion = FALSE], "msg_status", 0, 0)
     ELSE Susp(st1, "loop", 0, 0)

\* handleSessionEvent up to its first await.
HandleSync(st, ev) ==
  IF ev = "idle" THEN IdleSync(st) ELSE Susp(st, "msg_send", 0, 0)

\* The drain sending prompt p with the images the chat had when p arrived.
DrainTextAtSubmit(st, p) == appendImagesToPrompt(p, subm[p].images)

\* session.idle: const promptToSend = appendImagesToPrompt(nextPrompt, state.images)
DrainText(st, p) == appendImagesToPrompt(p, st.images)

\* The activation i of processEventQueue of chat c goes on as h says; at
\* "idle_send" it is inside session.send({ prompt: promptToSend }).
Resume(c, ds, i, h) ==
  /\ chatStates' = Put(c, h.st)
  /\ drains' = [drains EXCEPT ![c] =
                  [ds EXCEPT ![i] =
                     [pc |-> h.pc, p |-> h.p, s |-> h.s,
                      text |-> IF h.pc = "idle_send" THEN DrainText(h.st, h.p) ELSE NoText]]]
  /\ sent' = IF h.pc = "idle_send" THEN [sent EXCEPT ![c] = Append(@, h.p)] ELSE sent

\* enqueueSessionEvent followed by processEventQueue, up to the first await.
EnqueueSessionEvent(c, ev) ==
  IF ~Has(c) THEN UNCHANGED <<chatStates, drains, sent, toolVars>>
  ELSE LET st1 == [chatStates[c] EXCEPT !.eventQueue = Append(@, ev)]
       IN IF st1.processingEvents
          THEN /\ chatStates' = Put(c, st1)
               /\ UNCHANGED <<drains, sent, toolVars>>
          ELSE LET st2 == [st1 EXCEPT !.processingEvents = TRUE, !.eventQueue = Tail(@)]
               IN Resume(c, Append(drains[c], [pc |-> "new", p |-> 0, s |-> 0, text |-> NoText]),
                         Len(drains[c]) + 1, HandleSync(st2, Head(st1.eventQueue)))

\* The session emits the turn's assistant.message (the final answer), before
\* or after its session.idle.
TurnMessage(t) ==
  /\ ~t.msg
  /\ turns' = (turns \ {t}) \cup (IF t.idle THEN {} ELSE {[t EXCEPT !.msg = TRUE]})
  /\ EnqueueSessionEvent(t.c, "message")
  /\ UNCHANGED <<cwd, ops, msgTasks, live, subm, opsUsed, toolVars>>

\* The session emits session.idle: the turn has ended.
TurnIdle(t) ==
  /\ ~t.idle
  /\ turns' = (turns \ {t}) \cup (IF t.msg THEN {} ELSE {[t EXCEPT !.idle = TRUE]})
  /\ EnqueueSessionEvent(t.c, "idle")
  /\ UNCHANGED <<cwd, ops, msgTasks, live, subm, opsUsed, toolVars>>

\* processEventQueue: the while test after a handler returned.
DrainLoop(c, i) ==
  /\ drains[c][i].pc = "loop"
  /\ LET st == chatStates[c]
     IN IF Len(st.eventQueue) > 0
        THEN Resume(c, drains[c], i,
                    HandleSync([st EXCEPT !.eventQueue = Tail(@)], Head(st.eventQueue)))
        ELSE /\ chatStates' = Put(c, [st EXCEPT !.processingEvents = FALSE])
             /\ drains' = [drains EXCEPT ![c] = RemoveAt(@, i)]
             /\ UNCHANGED sent
  /\ UNCHANGED <<cwd, ops, msgTasks, turns, live, subm, opsUsed, toolVars>>

\* assistant.message: sendLongMessage delivered the answer.
MessageDelivered(c, i) ==
  /\ drains[c][i].pc = "msg_send"
  /\ Resume(c, drains[c], i, MessageAfterSend(chatStates[c]))
  /\ UNCHANGED <<cwd, ops, msgTasks, turns, live, subm, opsUsed, toolVars>>

\* assistant.message: the deferred completion notice was delivered.
DeferredNoticeShown(c, i) ==
  /\ drains[c][i].pc = "msg_status"
  /\ Resume(c, drains[c], i, Susp(chatStates[c], "loop", 0, 0))
  /\ UNCHANGED <<cwd, ops, msgTasks, turns, live, subm, opsUsed, toolVars>>

\* session.idle: the completion notice was delivered; the second if runs.
IdleNoticeShown(c, i) ==
  /\ drains[c][i].pc = "idle_status"
  /\ Resume(c, drains[c], i, IdleDrain(chatStates[c]))
  /\ UNCHANGED <<cwd, ops, msgTasks, turns, live, subm, opsUsed, toolVars>>

\* session.idle: the send of the drained prompt resolves.
DrainSendAccepted(c, i) ==
  /\ drains[c][i].pc = "idle_send"
  /\ drains[c][i].s \in live
  /\ turns' = turns \cup
       {NewTurn(c, drains[c][i].p, drains[c][i].s)}
  /\ Resume(c, drains[c], i, Susp(chatStates[c], "loop", 0, 0))
  /\ UNCHANGED <<cwd, ops, msgTasks, live, subm, opsUsed, toolVars>>

\* session.idle: the send of the drained prompt rejects; the report is awaited.
DrainSendRejected(c, i) ==
  /\ drains[c][i].pc = "idle_send"
  /\ Resume(c, drains[c], i, Susp(chatStates[c], "idle_report", 0, 0))
  /\ UNCHANGED <<cwd, ops, msgTasks, turns, live, subm, opsUsed, toolVars>>

\* session.idle: the error report was delivered; the rollback runs.
DrainReportDone(c, i) ==
  /\ drains[c][i].pc = "idle_report"
  /\ Resume(c, drains[c], i, Susp(DrainRollback(chatStates[c]), "loop", 0, 0))
  /\ UNCHANGED <<cwd, ops, msgTasks, turns, live, subm, opsUsed, toolVars>>

\* A bot.sendMessage awaited inside a handler rejects: the handler throws and
\* processEventQueue catches and logs.
HandlerThrows(c, i) ==
  /\ drains[c][i].pc \in {"msg_send", "msg_status", "idle_status", "idle_report"}
  /\ Resume(c, drains[c], i, Susp(chatStates[c], "loop", 0, 0))
  /\ UNCHANGED <<cwd, ops, msgTasks, turns, live, subm, opsUsed, toolVars>>

\* ------------------------------------------------------ session lifecycle
\* A lifecycle handler in progress.  id: the request's number, which is also
\* the client and the session it creates; dir, model: the arguments of
\* startSession (model 0: none given; after entry, modelToUse); ds, dc: the
\* session being destroyed and the client being stopped at the pending await.
NewOp(id, kind, dir, model) ==
  [id |-> id, kind |-> kind, pc |-> "new", dir |-> dir, model |-> model,
   ds |-> 0, dc |-> 0]

\* What a lifecycle segment leaves behind; done: the handler returned.
Step(st, op, dir, done) == [st |-> st, op |-> op, cwd |-> dir, done |-> done]

\* What the caller of startSession does to the chat state once startSession
\* has returned or thrown: cmd_reset clears resetting on both paths, the
\* other callers only report.
Finish(kind, st) ==
  IF kind = "cmd_reset" THEN [st EXCEPT !.resetting = FALSE] ELSE st

\* A failing process.chdir after which the new client is in the record.
SSAfterStopKeepsClient(st, op, chdirOk) ==
  IF chdirOk
  THEN Step(st, [op EXCEPT !.pc = "ss_start"], op.dir, FALSE)
  ELSE Step(Finish(op.kind, [st EXCEPT !.client = op.id]), op, cwd, TRUE)

\* startSession: process.chdir, new CopilotClient(), client.start() called.
SSAfterStop(st, op, chdirOk) ==
  IF chdirOk
  THEN Step(st, [op EXCEPT !.pc = "ss_start"], op.dir, FALSE)
  ELSE Step(Finish(op.kind, st), op, cwd, TRUE)

\* startSession: if (state.client) await state.client.stop()
SSAfterDestroy(st, op, chdirOk) ==
  IF st.client # 0
  THEN Step(st, [op EXCEPT !.pc = "ss_stop", !.dc = st.client], cwd, FALSE)
  ELSE SSAfterStop(st, op, chdirOk)

\* startSession from its entry: the model update, modelToUse, and
\* if (state.session) await state.session.destroy()
SSEnter(st, op, chdirOk) ==
  LET st1 == IF op.model # 0 THEN [st EXCEPT !.model = op.model] ELSE st
      op1 == [op EXCEPT !.model = st1.model]
  IN IF st1.session # 0
     THEN Step(st1, [op1 EXCEPT !.pc = "ss_destroy", !.ds = st1.session], cwd, FALSE)
     ELSE SSAfterDestroy(st1, op1, chdirOk)

\* A store that records the client and the session but not the directory.
StoreNoDir(st, op) ==
  [st EXCEPT !.client = op.id, !.session = op.id, !.busy = FALSE,
             !.queue = <<>>, !.resetting = FALSE, !.awaitingFinal = FALSE,
             !.pendingCompletion = FALSE, !.eventQueue = <<>>,
             !.processingEvents = FALSE]

\* A store that keeps the prompts that were waiting.
StoreKeepsQueue(st, op) ==
  [st EXCEPT !.client = op.id, !.session = op.id, !.dir = op.dir, !.busy = FALSE,
             !.resetting = FALSE, !.awaitingFinal = FALSE,
             !.pendingCompletion = FALSE, !.eventQueue = <<>>,
             !.processingEvents = FALSE]

\* startSession, "Store state": the assignments after createSession resolved.
StoreSession(st, op) ==
  [st EXCEPT !.client = op.id, !.session = op.id, !.dir = op.dir, !.busy = FALSE,
             !.queue = <<>>, !.resetting = FALSE, !.awaitingFinal = FALSE,
             !.pendingCompletion = FALSE, !.eventQueue = <<>>,
             !.processingEvents = FALSE]

\* A reset that sets the flag and empties the queue but leaves busy as it is.
ResetKeepsBusy(st) ==
  [st EXCEPT !.queue = <<>>, !.resetting = TRUE, !.currentPrompt = 0,
             !.awaitingFinal = FALSE, !.pendingCompletion = FALSE, !.turnCount = 0]

\* /reset: "Clear queue and set resetting flag"
ResetClear(st) ==
  [st EXCEPT !.queue = <<>>, !.resetting = TRUE, !.busy = FALSE, !.currentPrompt = 0,
             !.awaitingFinal = FALSE, !.pendingCompletion = FALSE, !.turnCount = 0]

\* cmd_reset: the assignments before the notice
CmdResetClear(st) ==
  [st EXCEPT !.queue = <<>>, !.resetting = TRUE, !.busy = FALSE, !.turnCount = 0]

\* The session s is gone: it runs no turn any more.
Kill(dead) ==
  /\ live' = live \ dead
  /\ turns' = {t \in turns : t.s \notin dead}

\* The handler i of chat c (of the handlers os) goes on as r says.
Proceed(c, os, i, r) ==
  /\ chatStates' = Put(c, r.st)
  /\ cwd' = r.cwd
  /\ ops' = [ops EXCEPT ![c] = IF r.done THEN RemoveAt(os, i) ELSE [os EXCEPT ![i] = r.op]]

\* A new handler of chat c starts with segment r.
Start(c, r) ==
  /\ opsUsed < MaxOps
  /\ opsUsed' = opsUsed + 1
  /\ Proceed(c, Append(ops[c], r.op), Len(ops[c]) + 1, r)

\* callback set_dir:<i>: startSession(chatId, dir)
SetDir(c, d) ==
  /\ \E chdirOk \in BOOLEAN :
       Start(c, SSEnter(IF Has(c) THEN chatStates[c] ELSE NewChatState(defaultModel),
                        NewOp(opsUsed + 1, "set_dir", d, 0), chdirOk))
  /\ UNCHANGED <<drains, msgTasks, turns, live, subm, sent, toolVars>>

\* /model <n> and callback set_model:<i>: a chat without a state gets one
\* with the model; otherwise the model is set and a live session restarted.
SwitchModel(c, m) ==
  /\ LET st == IF Has(c) THEN [chatStates[c] EXCEPT !.model = m] ELSE NewChatState(m)
     IN IF st.session # 0 /\ st.dir # 0
        THEN \E chdirOk \in BOOLEAN :
               Start(c, SSEnter(st, NewOp(opsUsed + 1, "model", st.dir, m), chdirOk))
        ELSE /\ chatStates' = Put(c, st)
             /\ UNCHANGED <<cwd, ops, opsUsed, toolVars>>
  /\ UNCHANGED <<drains, msgTasks, turns, live, subm, sent, toolVars>>

\* A handler that returns at its guard: it used its turn and changed nothing.
Rejected ==
  /\ opsUsed < MaxOps
  /\ opsUsed' = opsUsed + 1
  /\ UNCHANGED <<chatStates, cwd, ops>>

\* A /reset that clears and restarts whether or not the chat has a session.
ResetNoGuard(c) ==
  /\ IF Has(c)
     THEN LET st == chatStates[c]
          IN Start(c, Step(ResetClear(st),
                           [NewOp(opsUsed + 1, "reset", st.dir, st.model) EXCEPT !.pc = "r_notify"],
                           cwd, FALSE))
     ELSE Rejected
  /\ UNCHANGED <<drains, msgTasks, turns, live, subm, sent, toolVars>>

\* /reset up to the "restarting" notice, or up to its return when the chat
\* has no state or no session.
Reset(c) ==
  /\ IF Has(c) /\ chatStates[c].session # 0
     THEN LET st == chatStates[c]
          IN Start(c, Step(ResetClear(st),
                           [NewOp(opsUsed + 1, "reset", st.dir, st.model) EXCEPT !.pc = "r_notify"],
                           cwd, FALSE))
     ELSE Rejected
  /\ UNCHANGED <<drains, msgTasks, turns, live, subm, sent, toolVars>>

\* callback cmd_reset up to the "restarting" notice, or up to its return when
\* the chat has no state, no session or no directory.
CmdReset(c) ==
  /\ IF Has(c) /\ chatStates[c].session # 0 /\ chatStates[c].dir # 0
     THEN LET st == chatStates[c]
          IN Start(c, Step(CmdResetClear(st),
                           [NewOp(opsUsed + 1, "cmd_reset", st.dir, st.model) EXCEPT !.pc = "cr_notify"],
                           cwd, FALSE))
     ELSE Rejected
  /\ UNCHANGED <<drains, msgTasks, turns, live, subm, sent, toolVars>>

\* /reset: if (currentDir) await startSession(...) else report
ResetStart(st, op, chdirOk) ==
  IF op.dir # 0 THEN SSEnter(st, op, chdirOk) ELSE Step(st, op, cwd, TRUE)

\* /reset: the notice was delivered; abort the session if there is one, else
\* start the new session.
ResetNotified(c, i) ==
  /\ ops[c][i].pc = "r_notify"
  /\ LET st == chatStates[c]
         op == ops[c][i]
     IN IF st.session # 0
        THEN Proceed(c, ops[c], i, Step(st, [op EXCEPT !.pc = "r_abort"], cwd, FALSE))
        ELSE \E chdirOk \in BOOLEAN : Proceed(c, ops[c], i, ResetStart(st, op, chdirOk))
  /\ UNCHANGED <<drains, msgTasks, turns, live, subm, sent, opsUsed, toolVars>>

\* /reset: session.abort() resolved or threw (logged); startSession is called.
ResetAborted(c, i) ==
  /\ ops[c][i].pc = "r_abort"
  /\ \E chdirOk \in BOOLEAN : Proceed(c, ops[c], i, ResetStart(chatStates[c], ops[c][i], chdirOk))
  /\ UNCHANGED <<drains, msgTasks, turns, live, subm, sent, opsUsed, toolVars>>

\* cmd_reset: the notice was delivered; state.session.destroy() is called, and
\* throws at once (into the catch block) if the session handle is null by now.
CmdResetNotified(c, i) ==
  /\ ops[c][i].pc = "cr_notify"
  /\ LET st == chatStates[c]
         op == ops[c][i]
     IN IF st.session # 0
        THEN Proceed(c, ops[c], i,
                     Step(st, [op EXCEPT !.pc = "cr_destroy", !.ds = st.session], cwd, FALSE))
        ELSE Proceed(c, ops[c], i, Step(Finish(op.kind, st), op, cwd, TRUE))
  /\ UNCHANGED <<drains, msgTasks, turns, live, subm, sent, opsUsed, toolVars>>

\* /reset or cmd_reset: the "restarting" notice rejects, outside any try: the
\* handler ends there.
NoticeFails(c, i) ==
  /\ ops[c][i].pc \in {"r_notify", "cr_notify"}
  /\ Proceed(c, ops[c], i, Step(chatStates[c], ops[c][i], cwd, TRUE))
  /\ UNCHANGED <<drains, msgTasks, turns, live, subm, sent, opsUsed, toolVars>>

\* cmd_reset: destroy resolved; state.session = null; startSession is called.
CmdResetDestroyed(c, i) ==
  /\ ops[c][i].pc = "cr_destroy"
  /\ \E chdirOk \in BOOLEAN :
       Proceed(c, ops[c], i,
               SSEnter([chatStates[c] EXCEPT !.session = 0], ops[c][i], chdirOk))
  /\ Kill({ops[c][i].ds})
  /\ UNCHANGED <<drains, msgTasks, subm, sent, opsUsed, toolVars>>

\* cmd_reset: destroy threw; the catch block clears resetting.
CmdResetDestroyFails(c, i) ==
  /\ ops[c][i].pc = "cr_destroy"
  /\ Proceed(c, ops[c], i, Step(Finish(ops[c][i].kind, chatStates[c]), ops[c][i], cwd, TRUE))
  /\ UNCHANGED <<drains, msgTasks, turns, live, subm, sent, opsUsed, toolVars>>

\* A startSession that lets the error of destroy() out to its caller.
SSDestroyedFatal(c, i) ==
  /\ ops[c][i].pc = "ss_destroy"
  /\ \/ /\ \E chdirOk \in BOOLEAN :
            Proceed(c, ops[c], i,
                    SSAfterDestroy([chatStates[c] EXCEPT !.session = 0], ops[c][i], chdirOk))
        /\ Kill({ops[c][i].ds})
     \/ /\ Proceed(c, ops[c], i,
                    Step(Finish(ops[c][i].kind, chatStates[c]), ops[c][i], cwd, TRUE))
        /\ Kill({})
  /\ UNCHANGED <<drains, msgTasks, subm, sent, opsUsed, toolVars>>

\* startSession: state.session.destroy() resolved (ok) or threw (logged);
\* state.session = null.
SSDestroyed(c, i) ==
  /\ ops[c][i].pc = "ss_destroy"
  /\ \E chdirOk \in BOOLEAN :
       Proceed(c, ops[c], i,
               SSAfterDestroy([chatStates[c] EXCEPT !.session = 0], ops[c][i], chdirOk))
  /\ \E ok \in BOOLEAN : Kill(IF ok THEN {ops[c][i].ds} ELSE {})
  /\ UNCHANGED <<drains, msgTasks, subm, sent, opsUsed, toolVars>>

\* startSession: state.client.stop() resolved or threw (logged);
\* state.client = null.  The client's process, and its session, are gone.
SSStopped(c, i) ==
  /\ ops[c][i].pc = "ss_stop"
  /\ \E chdirOk \in BOOLEAN :
       Proceed(c, ops[c], i,
               SSAfterStop([chatStates[c] EXCEPT !.client = 0], ops[c][i], chdirOk))
  /\ Kill({ops[c][i].dc})
  /\ UNCHANGED <<drains, msgTasks, subm, sent, opsUsed, toolVars>>

\* startSession: client.start() resolved; client.createSession is called.
SSClientStarted(c, i) ==
  /\ ops[c][i].pc = "ss_start"
  /\ Proceed(c, ops[c], i, Step(chatStates[c], [ops[c][i] EXCEPT !.pc = "ss_create"], cwd, FALSE))
  /\ UNCHANGED <<drains, msgTasks, turns, live, subm, sent, opsUsed, toolVars>>

\* startSession: createSession resolved; the state is stored and the caller
\* goes on.
SSCreated(c, i) ==
  /\ ops[c][i].pc = "ss_create"
  /\ LET op == ops[c][i]
     IN Proceed(c, ops[c], i, Step(Finish(op.kind, StoreSession(chatStates[c], op)), op, cwd, TRUE))
  /\ live' = live \cup {ops[c][i].id}
  /\ UNCHANGED <<drains, msgTasks, turns, subm, sent, opsUsed, toolVars>>

\* startSession: client.start() or createSession rejects; the catch block
\* stops the new client.
SSCreateFails(c, i) ==
  /\ ops[c][i].pc \in {"ss_start", "ss_create"}
  /\ Proceed(c, ops[c], i, Step(chatStates[c], [ops[c][i] EXCEPT !.pc = "ss_failstop"], cwd, FALSE))
  /\ UNCHANGED <<drains, msgTasks, turns, live, subm, sent, opsUsed, toolVars>>

\* A catch block that keeps the client it could not create a session on.
SSFailedKeepsClient(c, i) ==
  /\ ops[c][i].pc = "ss_failstop"
  /\ LET op == ops[c][i]
     IN Proceed(c, ops[c], i,
                Step(Finish(op.kind, [chatStates[c] EXCEPT !.client = op.id]), op, cwd, TRUE))
  /\ UNCHANGED <<drains, msgTasks, turns, live, subm, sent, opsUsed, toolVars>>

\* startSession: the new client was stopped (or stop threw); the error is
\* rethrown to the caller.
SSFailed(c, i) ==
  /\ ops[c][i].pc = "ss_failstop"
  /\ LET op == ops[c][i]
     IN Proceed(c, ops[c], i, Step(Finish(op.kind, chatStates[c]), op, cwd, TRUE))
  /\ UNCHANGED <<drains, msgTasks, turns, live, subm, sent, opsUsed, toolVars>>

\* ------------------------------------------------------------ images
\* bot.on('message') with a photo or an image document: the file URL is
\* pushed on state.images, for a chat without a state after the state has
\* been created.  (A caption goes on as a prompt after the confirmation, which
\* is a message of its own here.)
AddImage(c) ==
  /\ LET st == IF Has(c) THEN chatStates[c] ELSE NewChatState(defaultModel)
     IN /\ Len(st.images) < MaxImages
        /\ chatStates' = Put(c, [st EXCEPT !.images = Append(@, Len(@) + 1)])
  /\ UNCHANGED <<cwd, ops, drains, msgTasks, turns, live, subm, sent, opsUsed, toolVars>>

\* ------------------------------------------------------------ shutdown
\* The process itself, where ops holds the handler of SIGINT.
Process == 0

\* The handler of SIGINT, or the cleanup promise it made for a chat, at pc;
\* ds, dc: the session and the client whose destroy and stop it awaits.
ShutdownOp(pc, ds, dc) ==
  [NewOp(0, "shutdown", 0, 0) EXCEPT !.pc = pc, !.ds = ds, !.dc = dc]

Signalled == Process \in DOMAIN ops /\ ops[Process] # <<>>

\* process.exit(0) has been called.
Exited == Signalled /\ ops[Process][1].pc = "exited"

\* The cleanup promise after the first try block: if (state.client) it waits
\* for the race of client.stop() and the 3 s timer, else it is resolved.
CleanupAfterDestroy(st) ==
  IF st.client # 0 THEN ShutdownOp("c_stop", 0, st.client) ELSE ShutdownOp("c_done", 0, 0)

\* The cleanup promise of a chat up to its first await: if (state.session) it
\* waits for the race of session.destroy() and the 5 s timer.
CleanupEntry(st) ==
  IF st.session # 0 THEN ShutdownOp("c_destroy", st.session, 0) ELSE CleanupAfterDestroy(st)

\* No timer ever fires.
NeverExpired(op) == FALSE

\* new Promise((resolve) => setTimeout(resolve, ms)): the timer of the race
\* the handler waits at fires.
Expired(op) == op.kind = "shutdown" /\ op.pc \in {"c_destroy", "c_stop", "wait_all"}

\* process.on('SIGINT'): one cleanup promise for every chat state, then the
\* race of Promise.all(cleanupPromises) and the 10 s timer.
Sigint ==
  /\ Process \in DOMAIN ops
  /\ ~Signalled
  /\ ops' = [c \in DOMAIN ops |->
              IF c = Process THEN <<ShutdownOp("wait_all", 0, 0)>>
              ELSE IF Has(c) THEN Append(ops[c], CleanupEntry(chatStates[c]))
              ELSE ops[c]]
  /\ UNCHANGED <<chatStates, cwd, drains, msgTasks, turns, live, subm, sent, opsUsed, toolVars>>

\* state.session.destroy() resolves, or rejects into the catch block; the
\* cleanup goes on to the client.  It may as well never do either.
CleanupDestroySettled(c, i) ==
  /\ ~Exited
  /\ ops[c][i].kind = "shutdown" /\ ops[c][i].pc = "c_destroy"
  /\ ops' = [ops EXCEPT ![c][i] = CleanupAfterDestroy(chatStates[c])]
  /\ \E ok \in BOOLEAN :
       IF ok THEN Kill({ops[c][i].ds}) ELSE UNCHANGED <<live, turns>>
  /\ UNCHANGED <<chatStates, cwd, drains, msgTasks, subm, sent, opsUsed, toolVars>>

\* The 5 s timer wins the race against session.destroy().
CleanupDestroyTimeout(c, i) ==
  /\ ~Exited
  /\ Expired(ops[c][i]) /\ ops[c][i].pc = "c_destroy"
  /\ ops' = [ops EXCEPT ![c][i] = CleanupAfterDestroy(chatStates[c])]
  /\ UNCHANGED <<chatStates, cwd, drains, msgTasks, turns, live, subm, sent, opsUsed, toolVars>>

\* state.client.stop() resolves, or rejects into the inner catch block.
CleanupStopSettled(c, i) ==
  /\ ~Exited
  /\ ops[c][i].kind = "shutdown" /\ ops[c][i].pc = "c_stop"
  /\ ops' = [ops EXCEPT ![c][i] = ShutdownOp("c_done", 0, 0)]
  /\ UNCHANGED <<chatStates, cwd, drains, msgTasks, turns, live, subm, sent, opsUsed, toolVars>>

\* The 3 s timer wins the race against client.stop().
CleanupStopTimeout(c, i) ==
  /\ ~Exited
  /\ Expired(ops[c][i]) /\ ops[c][i].pc = "c_stop"
  /\ ops' = [ops EXCEPT ![c][i] = ShutdownOp("c_done", 0, 0)]
  /\ UNCHANGED <<chatStates, cwd, drains, msgTasks, turns, live, subm, sent, opsUsed, toolVars>>

\* Every cleanup promise is resolved.
CleanupsDone ==
  \A c \in DOMAIN ops \ {Process} : \A i \in DOMAIN ops[c] :
    ops[c][i].kind = "shutdown" => ops[c][i].pc = "c_done"

\* Promise.all(cleanupPromises) wins the race: process.exit(0).
ShutdownAllDone ==
  /\ Signalled /\ ops[Process][1].pc = "wait_all"
  /\ CleanupsDone
  /\ ops' = [ops EXCEPT ![Process] = <<ShutdownOp("exited", 0, 0)>>]
  /\ UNCHANGED <<chatStates, cwd, drains, msgTasks, turns, live, subm, sent, opsUsed, toolVars>>

\* The 10 s timer wins the race: process.exit(0).
ShutdownTimeout ==
  /\ Signalled /\ ops[Process][1].pc = "wait_all"
  /\ Expired(ops[Process][1])
  /\ ops' = [ops EXCEPT ![Process] = <<ShutdownOp("exited", 0, 0)>>]
  /\ UNCHANGED <<chatStates, cwd, drains, msgTasks, turns, live, subm, sent, opsUsed, toolVars>>

\* ------------------------------------------------------------ long messages
\* Characters: the newline and any other one.
Newline == 1
Chars == {0, Newline}

\* The texts of at most MaxText characters.
Texts == UNION {[1 .. n -> Chars] : n \in 0 .. MaxText}

\* String.prototype.slice(0, end)
SliceOneMore(s, end) == SubSeq(s, 1, IF end + 1 < Len(s) THEN end + 1 ELSE Len(s))

SliceTo(s, end) == SubSeq(s, 1, IF end < Len(s) THEN end ELSE Len(s))

\* String.prototype.slice(start)
SliceFrom(s, start) == SubSeq(s, start + 1, Len(s))

\* chunk.lastIndexOf('\n') + 1: the position of the last newline counted from
\* 1, and 0 when there is none.
LastNewlinePos(s) ==
  LET ps == {i \in DOMAIN s : s[i] = Newline}
  IN IF ps = {} THEN 0 ELSE CHOOSE i \in ps : \A j \in ps : j <= i

\* splitLongMessage, one turn of the loop: the chunk cut off remaining.  The
\* test lastNewline > maxLen * 0.8 is made in fifths.
NextChunk(remaining, maxLen) ==
  LET chunk == SliceTo(remaining, maxLen)
      pos == LastNewlinePos(chunk)
  IN IF Len(remaining) > maxLen /\ pos > 0 /\ 5 * (pos - 1) > 4 * maxLen
     THEN SliceTo(remaining, pos)
     ELSE chunk

\* A call of splitLongMessage(text, maxLen) at the test of its loop.
SplitCall(text, maxLen) ==
  [text |-> text, maxLen |-> maxLen, remaining |-> text, chunks |-> <<>>, pc |-> "loop"]

\* while (remaining.length > 0) { ...; chunks.push(chunk); remaining = ... }
SplitTurn(t) ==
  /\ t.pc = "loop" /\ Len(t.remaining) > 0
  /\ LET chunk == NextChunk(t.remaining, t.maxLen)
     IN msgTasks' = {[t EXCEPT !.chunks = Append(@, chunk),
                               !.remaining = SliceFrom(@, Len(chunk))]}
  /\ UNCHANGED <<chatStates, cwd, ops, drains, turns, live, subm, sent, opsUsed, toolVars>>

\* return chunks
SplitReturn(t) ==
  /\ t.pc = "loop" /\ Len(t.remaining) = 0
  /\ msgTasks' = {[t EXCEPT !.pc = "returned"]}
  /\ UNCHANGED <<chatStates, cwd, ops, drains, turns, live, subm, sent, opsUsed, toolVars>>

\* ------------------------------------------------------------ tool events
\* event.id of the start event of tool t; the tool-call id of tool t is t.
EventId(t) == MaxTools + t

\* generateToolResultKey: a key no other start event gets.
ResultKey(t) == t

\* state.toolStartMessages.set(toolKey, {...}) with toolKey = toolCallId || event.id
ToolStartEntry(t, toolCallId) ==
  [key |-> IF toolCallId # 0 THEN toolCallId ELSE EventId(t),
   eventId |-> EventId(t), resultKey |-> ResultKey(t)]

\* findToolStartMessage: the entry found, as a set (empty: undefined); 0 is a
\* missing toolCallId or parentId.
findToolStartMessage(st, toolCallId, parentId) ==
  LET byId == {e \in st.toolStartMessages : e.key = toolCallId}
  IN IF toolCallId # 0 /\ byId # {} THEN byId
     ELSE IF parentId # 0 THEN {e \in st.toolStartMessages : e.eventId = parentId}
     ELSE {}

\* processEventQueue hands the chat's events to handleSessionEvent one at a
\* time: an event is taken up when no handler of the chat is in progress.
ToolIdle(c) == Has(c) /\ drains[c] = <<>>

\* The handler of a tool event of tool t suspended at pc; entry: the
\* correlation entry it holds.
ToolHandler(pc, t, entry) == [pc |-> pc, p |-> t, entry |-> entry]

\* tool.execution_start, up to the await of bot.sendMessage
ToolStart(c, t, toolCallId) ==
  /\ ToolIdle(c)
  /\ ~toolLog[t].started
  /\ toolLog' = [toolLog EXCEPT ![t].started = TRUE]
  /\ drains' = [drains EXCEPT ![c] = <<ToolHandler("tool_start", t, ToolStartEntry(t, toolCallId))>>]
  /\ UNCHANGED <<chatStates, cwd, ops, msgTasks, turns, live, subm, sent, opsUsed,
                 fullToolResults, callbacks>>

\* tool.execution_start: the notification was sent; the entry is stored.
ToolStartNotified(c) ==
  /\ Has(c) /\ drains[c] # <<>> /\ drains[c][1].pc = "tool_start"
  /\ chatStates' = Put(c, [chatStates[c] EXCEPT !.toolStartMessages =
                             {e \in @ : e.key # drains[c][1].entry.key} \cup {drains[c][1].entry}])
  /\ drains' = [drains EXCEPT ![c] = <<>>]
  /\ UNCHANGED <<cwd, ops, msgTasks, turns, live, subm, sent, opsUsed, toolVars>>

\* tool.execution_start: bot.sendMessage throws; nothing is stored.
ToolStartNotifyFails(c) ==
  /\ Has(c) /\ drains[c] # <<>> /\ drains[c][1].pc = "tool_start"
  /\ drains' = [drains EXCEPT ![c] = <<>>]
  /\ UNCHANGED <<chatStates, cwd, ops, msgTasks, turns, live, subm, sent, opsUsed, toolVars>>

\* tool.execution_complete, up to the await of bot.setMessageReaction: the
\* result is stored under the key of the entry found; without an entry the
\* handler returns.
ToolComplete(c, t, toolCallId, parentId) ==
  /\ ToolIdle(c)
  /\ toolLog[t].started /\ ~toolLog[t].completing
  /\ LET found == findToolStartMessage(chatStates[c], toolCallId, parentId)
     IN IF found = {}
        THEN /\ toolLog' = [toolLog EXCEPT ![t].completing = TRUE, ![t].completed = TRUE]
             /\ UNCHANGED <<drains, fullToolResults>>
        ELSE \E e \in found :
               /\ fullToolResults' = fullToolResults \cup {e.resultKey}
               /\ drains' = [drains EXCEPT ![c] = <<ToolHandler("tool_react", t, e)>>]
               /\ toolLog' = [toolLog EXCEPT ![t].completing = TRUE]
  /\ UNCHANGED <<chatStates, cwd, ops, msgTasks, turns, live, subm, sent, opsUsed, callbacks>>

\* tool.execution_complete: setMessageReaction resolved, or rejected into the
\* catch block; state.toolStartMessages.delete(startEntry.toolCallId).
ToolReacted(c) ==
  /\ Has(c) /\ drains[c] # <<>> /\ drains[c][1].pc = "tool_react"
  /\ chatStates' = Put(c, [chatStates[c] EXCEPT !.toolStartMessages =
                             {e \in @ : e.key # drains[c][1].entry.key}])
  /\ drains' = [drains EXCEPT ![c] = <<>>]
  /\ toolLog' = [toolLog EXCEPT ![drains[c][1].p].completed = TRUE]
  /\ UNCHANGED <<cwd, ops, msgTasks, turns, live, subm, sent, opsUsed, fullToolResults, callbacks>>

\* callback_query show_result:<key>, up to the await of answerCallbackQuery:
\* with a stored result the handler goes on to send it, without one it answers
\* that the result is not ready or was shown.
ShowResult(k) ==
  /\ toolLog[k].asked < MaxReveals
  /\ toolLog' = [toolLog EXCEPT ![k].asked = @ + 1]
  /\ callbacks' = IF k \in fullToolResults
                  THEN callbacks \cup {[key |-> k, n |-> toolLog[k].asked + 1]}
                  ELSE callbacks
  /\ UNCHANGED <<chatStates, cwd, ops, drains, msgTasks, turns, live, subm, sent, opsUsed,
                 fullToolResults>>

\* show_result: sendLongMessage delivered the result; fullToolResults.delete(key).
ShowResultSent(cb) ==
  /\ cb \in callbacks
  /\ callbacks' = callbacks \ {cb}
  /\ fullToolResults' = fullToolResults \ {cb.key}
  /\ toolLog' = [toolLog EXCEPT ![cb.key].shown = @ + 1]
  /\ UNCHANGED <<chatStates, cwd, ops, drains, msgTasks, turns, live, subm, sent, opsUsed>>

\* show_result: answerCallbackQuery or sendLongMessage throws before the delete.
ShowResultFails(cb) ==
  /\ cb \in callbacks
  /\ callbacks' = callbacks \ {cb}
  /\ UNCHANGED <<chatStates, cwd, ops, drains, msgTasks, turns, live, subm, sent, opsUsed,
                 fullToolResults, toolLog>>

\* ------------------------------------------------------------ owner check
\* OWNER_CHAT_ID is set to the number of chat 1 (0: not set).
ownerChatId == 1

\* No owner check: every chat passes.
isOwnerOpen(chatId) == TRUE

\* isOwner
isOwner(chatId) == ownerChatId = 0 \/ chatId = ownerChatId

\* bot.on('message') from a chat that is not the owner: the rejection is sent
\* and the handler returns; the message is in the history only.
MessageRefused(c) ==
  /\ Len(subm) < MaxPrompts
  /\ subm' = Append(subm, Seen(c))
  /\ UNCHANGED <<chatStates, cwd, ops, drains, msgTasks, turns, live, sent, opsUsed, toolVars>>

\* A command or a button press from a chat that is not the owner: the
\* rejection is sent and the handler returns.
CommandRefused ==
  /\ Rejected
  /\ UNCHANGED <<drains, msgTasks, turns, live, subm, sent, toolVars>>

\* ------------------------------------------------------------ recent models
\* availableModels, by their index.
ModelNames == 1 .. MaxModels

\* recent.filter((m) => m !== newModel)
Without(recent, newModel) ==
  LET keep == {i \in DOMAIN recent : recent[i] # newModel}
      nth(k) == CHOOSE i \in keep : Cardinality({j \in keep : j < i}) = k - 1
  IN [k \in 1 .. Cardinality(keep) |-> recent[nth(k)]]

\* addToRecentModels: the new list, from state.recentModels || []
addToRecentModels(recent, newModel) ==
  LET filtered == <<newModel>> \o Without(recent, newModel)
  IN SubSeq(filtered, 1, IF Len(filtered) < 2 THEN Len(filtered) ELSE 2)

\* /model <n> and set_model:<n> for a chat without a session: a chat without
\* a state gets one with the model; otherwise the model that is left, if it
\* is another one, goes to the recent models and the new one is recorded.
SelectModel(c, m) ==
  /\ chatStates' =
       Put(c, IF ~Has(c) THEN NewChatState(m) @@ [recentModels |-> <<>>]
              ELSE LET st == chatStates[c]
                   IN [st EXCEPT !.model = m,
                                 !.recentModels = IF st.model # m
                                                  THEN addToRecentModels(@, st.model)
                                                  ELSE @])
  /\ UNCHANGED <<cwd, ops, drains, msgTasks, turns, live, subm, sent, opsUsed, toolVars>>

\* ------------------------------------------------------------ session markers
\* The marker (emoji) of a chat is a field of its state that only the state's
\* creation and the store of startSession write, each in one synchronous
\* piece with pickSessionEmoji.  The behaviours above leave the field out;
\* the ones below keep nothing else: a state is created with or without a
\* marker, and a session start that succeeded refreshes it, in any order
\* over the chats.
WithEmoji(st, e) == st @@ [emoji |-> e]

\* pickSessionEmoji, the loop over chatStates.values(): the markers in use.
UsedEmojis == {chatStates[c].emoji : c \in DOMAIN chatStates} \ {0}

\* A pick that does not look at the markers in use.
pickFirstEmoji == {1}

\* pickSessionEmoji: what it may return; the first entry of the pool that is
\* not in use, or any entry (Math.random) when all are.
pickSessionEmoji ==
  LET free == sessionEmojis \ UsedEmojis
  IN IF free # {}
     THEN {CHOOSE e \in free : \A f \in free : e <= f}
     ELSE sessionEmojis

\* startSession, if (!state), and the image branch of bot.on('message'): the
\* chat gets a state with a marker.
CreateWithEmoji(c) ==
  /\ ~Has(c)
  /\ \E e \in pickSessionEmoji :
       chatStates' = Put(c, WithEmoji(NewChatState(defaultModel), e))
  /\ UNCHANGED <<cwd, ops, drains, msgTasks, turns, live, subm, sent, opsUsed, toolVars>>

\* /dirs, /model, cmd_dirs, set_model, if (!state): a state without a marker.
CreateWithoutEmoji(c) ==
  /\ ~Has(c)
  /\ \E m \in Models : chatStates' = Put(c, WithEmoji(NewChatState(m), 0))
  /\ UNCHANGED <<cwd, ops, drains, msgTasks, turns, live, subm, sent, opsUsed, toolVars>>

\* startSession, "Store state": state.emoji = pickSessionEmoji()
RefreshEmoji(c) ==
  /\ Has(c)
  /\ \E e \in pickSessionEmoji :
       chatStates' = Put(c, [chatStates[c] EXCEPT !.emoji = e])
  /\ UNCHANGED <<cwd, ops, drains, msgTasks, turns, live, subm, sent, opsUsed, toolVars>>

\* ------------------------------------------------------------ behaviours
PromptNext(c) ==
  \/ SubmitPrompt(c)
  \/ \E t \in {x \in msgTasks : x.c = c} : SendAccepted(t)
  \/ \E t \in {x \in msgTasks : x.c = c} : SendRejected(t)
  \/ \E t \in {x \in msgTasks : x.c = c} : ReportDone(t)
  \/ \E t \in {x \in msgTasks : x.c = c} : ReportFails(t)

EventNext(c) ==
  \/ \E t \in {x \in turns : x.c = c} : TurnMessage(t)
  \/ \E t \in {x \in turns : x.c = c} : TurnIdle(t)
  \/ \E i \in DOMAIN drains[c] : DrainLoop(c, i)
  \/ \E i \in DOMAIN drains[c] : MessageDelivered(c, i)
  \/ \E i \in DOMAIN drains[c] : DeferredNoticeShown(c, i)
  \/ \E i \in DOMAIN drains[c] : IdleNoticeShown(c, i)
  \/ \E i \in DOMAIN drains[c] : DrainSendAccepted(c, i)
  \/ \E i \in DOMAIN drains[c] : DrainSendRejected(c, i)
  \/ \E i \in DOMAIN drains[c] : DrainReportDone(c, i)
  \/ \E i \in DOMAIN drains[c] : HandlerThrows(c, i)

StartSessionNext(c) ==
  \/ \E i \in DOMAIN ops[c] : SSDestroyed(c, i)
  \/ \E i \in DOMAIN ops[c] : SSStopped(c, i)
  \/ \E i \in DOMAIN ops[c] : SSClientStarted(c, i)
  \/ \E i \in DOMAIN ops[c] : SSCreated(c, i)
  \/ \E i \in DOMAIN ops[c] : SSCreateFails(c, i)
  \/ \E i \in DOMAIN ops[c] : SSFailed(c, i)

LifecycleNext(c) ==
  \/ \E d \in Dirs : SetDir(c, d)
  \/ \E m \in Models : SwitchModel(c, m)
  \/ Reset(c)
  \/ CmdReset(c)
  \/ \E i \in DOMAIN ops[c] : ResetNotified(c, i)
  \/ \E i \in DOMAIN ops[c] : ResetAborted(c, i)
  \/ \E i \in DOMAIN ops[c] : CmdResetNotified(c, i)
  \/ \E i \in DOMAIN ops[c] : NoticeFails(c, i)
  \/ \E i \in DOMAIN ops[c] : CmdResetDestroyed(c, i)
  \/ \E i \in DOMAIN ops[c] : CmdResetDestroyFails(c, i)
  \/ StartSessionNext(c)

Next == \E c \in SoloChats : PromptNext(c) \/ EventNext(c) \/ LifecycleNext(c)

Spec == Init /\ [][Next]_vars

\* The chat picks its directory once and is never reset or switched: prompts
\* and session events only.
FirstStart(c) ==
  \/ opsUsed = 0 /\ \E d \in Dirs : SetDir(c, d)
  \/ \E i \in DOMAIN ops[c] : SSClientStarted(c, i)
  \/ \E i \in DOMAIN ops[c] : SSCreated(c, i)
  \/ \E i \in DOMAIN ops[c] : SSCreateFails(c, i)
  \/ \E i \in DOMAIN ops[c] : SSFailed(c, i)

SteadyNext == \E c \in SoloChats : PromptNext(c) \/ EventNext(c) \/ FirstStart(c)

SpecSteady == Init /\ [][SteadyNext]_vars

\* The state after chat 1 picked directory 1 and its session was created:
\* startSession ran once, with the default model, and nothing else happened.
\* The session and its client have a number no later request gets.
FirstSession == MaxOps + 1

InitReady ==
  /\ chatStates = [c \in SoloChats |->
                     StoreSession(NewChatState(defaultModel),
                                  [id |-> FirstSession, dir |-> 1])]
  /\ cwd = 1
  /\ ops = [c \in Chats |-> <<>>]
  /\ drains = [c \in Chats |-> <<>>]
  /\ msgTasks = {}
  /\ turns = {}
  /\ live = {FirstSession}
  /\ subm = <<>>
  /\ sent = [c \in Chats |-> <<>>]
  /\ opsUsed = 0
  /\ NoTools

\* The same handlers from the state with a session, where two lifecycle
\* requests can overlap, with at most OverlapPrompts prompts: without a second
\* prompt nothing is ever queued, so the idle handler never sends.
OverlapPrompt(c) ==
  \/ Len(subm) < OverlapPrompts /\ SubmitPrompt(c)
  \/ \E t \in {x \in msgTasks : x.c = c} : SendAccepted(t)
  \/ \E t \in {x \in msgTasks : x.c = c} : SendRejected(t)
  \/ \E t \in {x \in msgTasks : x.c = c} : ReportDone(t)
  \/ \E t \in {x \in msgTasks : x.c = c} : ReportFails(t)

OverlapEvent(c) ==
  \/ \E t \in {x \in turns : x.c = c} : TurnMessage(t)
  \/ \E t \in {x \in turns : x.c = c} : TurnIdle(t)
  \/ \E i \in DOMAIN drains[c] : DrainLoop(c, i)
  \/ \E i \in DOMAIN drains[c] : MessageDelivered(c, i)
  \/ \E i \in DOMAIN drains[c] : DeferredNoticeShown(c, i)
  \/ \E i \in DOMAIN drains[c] : IdleNoticeShown(c, i)
  \/ \E i \in DOMAIN drains[c] : HandlerThrows(c, i)

OverlapNext == \E c \in SoloChats : OverlapPrompt(c) \/ OverlapEvent(c) \/ LifecycleNext(c)

SpecOverlap == InitReady /\ [][OverlapNext]_vars

\* Two chats.  Chat 2 has picked directory 1 and has its session; it receives
\* prompts and session events.  Chat 1 starts without a state and does
\* everything.
InitPair ==
  /\ chatStates = [c \in Chats \ SoloChats |->
                     StoreSession(NewChatState(defaultModel),
                                  [id |-> FirstSession, dir |-> 1])]
  /\ cwd = 1
  /\ ops = [c \in Chats |-> <<>>]
  /\ drains = [c \in Chats |-> <<>>]
  /\ msgTasks = {}
  /\ turns = {}
  /\ live = {FirstSession}
  /\ subm = <<>>
  /\ sent = [c \in Chats |-> <<>>]
  /\ opsUsed = 0
  /\ NoTools

PairPrompt(c) ==
  \/ Len(subm) < PairPrompts /\ SubmitPrompt(c)
  \/ \E t \in {x \in msgTasks : x.c = c} : SendAccepted(t)
  \/ \E t \in {x \in msgTasks : x.c = c} : SendRejected(t)
  \/ \E t \in {x \in msgTasks : x.c = c} : ReportDone(t)
  \/ \E t \in {x \in msgTasks : x.c = c} : ReportFails(t)

PairNext ==
  \/ \E c \in Chats : PairPrompt(c) \/ EventNext(c)
  \/ \E c \in SoloChats : LifecycleNext(c)

SpecPair == InitPair /\ [][PairNext]_vars

\* Every chat picks its directory once: the session starts of different
\* chats, in any interleaving, and nothing else.
OneStart(c) ==
  \/ ~Has(c) /\ \E d \in Dirs : SetDir(c, d)
  \/ \E i \in DOMAIN ops[c] : SSClientStarted(c, i)
  \/ \E i \in DOMAIN ops[c] : SSCreated(c, i)
  \/ \E i \in DOMAIN ops[c] : SSCreateFails(c, i)
  \/ \E i \in DOMAIN ops[c] : SSFailed(c, i)

StartsNext == \E c \in Chats : OneStart(c)

SpecStarts == Init /\ [][StartsNext]_vars

\* Prompts, session events and images for a chat that has its session.
ImagePrompt(c) ==
  \/ Len(subm) < ImagePrompts /\ SubmitPrompt(c)
  \/ \E t \in {x \in msgTasks : x.c = c} : SendAccepted(t)
  \/ \E t \in {x \in msgTasks : x.c = c} : SendRejected(t)
  \/ \E t \in {x \in msgTasks : x.c = c} : ReportDone(t)
  \/ \E t \in {x \in msgTasks : x.c = c} : ReportFails(t)

ImagesNext == \E c \in SoloChats : ImagePrompt(c) \/ EventNext(c) \/ AddImage(c)

SpecImages == InitReady /\ [][ImagesNext]_vars

\* The markers alone, over MarkerChats.
MarkerNext ==
  \E c \in MarkerChats : CreateWithEmoji(c) \/ CreateWithoutEmoji(c) \/ RefreshEmoji(c)

SpecMarkers == Init /\ [][MarkerNext]_vars

\* Session starts of both chats and, at any moment, the shutdown signal; no
\* handler takes a step once the process has exited.
InitShutdown ==
  /\ chatStates = <<>>
  /\ cwd = 0
  /\ ops = [c \in Chats \cup {Process} |-> <<>>]
  /\ drains = [c \in Chats |-> <<>>]
  /\ msgTasks = {}
  /\ turns = {}
  /\ live = {}
  /\ subm = <<>>
  /\ sent = [c \in Chats |-> <<>>]
  /\ opsUsed = 0
  /\ NoTools

CleanupNext(c) ==
  \/ \E i \in DOMAIN ops[c] : CleanupDestroySettled(c, i)
  \/ \E i \in DOMAIN ops[c] : CleanupDestroyTimeout(c, i)
  \/ \E i \in DOMAIN ops[c] : CleanupStopSettled(c, i)
  \/ \E i \in DOMAIN ops[c] : CleanupStopTimeout(c, i)

ShutdownNext ==
  \/ Sigint
  \/ ShutdownAllDone
  \/ ShutdownTimeout
  \/ \E c \in Chats : CleanupNext(c)
  \/ \E c \in Chats : ~Exited /\ OneStart(c)

\* What the event loop owes: a timer that has been set fires, and the handler
\* of SIGINT runs on once Promise.all has resolved.  That a destroy or a stop
\* ever settles is not owed.
ShutdownProgress ==
  \/ ShutdownAllDone
  \/ ShutdownTimeout
  \/ \E c \in Chats : \E i \in DOMAIN ops[c] :
       CleanupDestroyTimeout(c, i) \/ CleanupStopTimeout(c, i)

SpecShutdown == InitShutdown /\ [][ShutdownNext]_vars /\ WF_vars(ShutdownProgress)

\* One call of splitLongMessage on any text and any chunk length from 1 on,
\* held where the handlers in flight are.
InitSplit ==
  /\ chatStates = <<>>
  /\ cwd = 0
  /\ ops = [c \in Chats |-> <<>>]
  /\ drains = [c \in Chats |-> <<>>]
  /\ msgTasks \in {{SplitCall(text, maxLen)} : text \in Texts, maxLen \in 1 .. MaxSplitLen}
  /\ turns = {}
  /\ live = {}
  /\ subm = <<>>
  /\ sent = [c \in Chats |-> <<>>]
  /\ opsUsed = 0
  /\ NoTools

SplitNext == \E t \in msgTasks : SplitTurn(t) \/ SplitReturn(t)

SpecSplit == InitSplit /\ [][SplitNext]_vars

\* The tool events of a chat that has its session, and the reveal requests.
ToolNext(c) ==
  \/ \E t \in Tools : \E id \in {0, t} : ToolStart(c, t, id)
  \/ ToolStartNotified(c)
  \/ ToolStartNotifyFails(c)
  \/ \E t \in Tools : \E id \in {0, t} : \E parent \in {0, EventId(t)} : ToolComplete(c, t, id, parent)
  \/ ToolReacted(c)

RevealNext ==
  \/ \E k \in Tools : ShowResult(k)
  \/ \E cb \in callbacks : ShowResultSent(cb)
  \/ \E cb \in callbacks : ShowResultFails(cb)

ToolsNext == RevealNext \/ \E c \in SoloChats : ToolNext(c)

SpecTools == InitReady /\ [][ToolsNext]_vars

\* The inputs of chat c, each behind the owner check of its handler, and the
\* steps of the handlers that passed it.
OwnerChecked(c) ==
  \/ isOwner(c) /\ SubmitPrompt(c)
  \/ ~isOwner(c) /\ MessageRefused(c)
  \/ isOwner(c) /\ ~Has(c) /\ \E d \in Dirs : SetDir(c, d)
  \/ ~isOwner(c) /\ CommandRefused
  \/ \E t \in {x \in msgTasks : x.c = c} : SendAccepted(t)
  \/ \E t \in {x \in msgTasks : x.c = c} : SendRejected(t)
  \/ \E t \in {x \in msgTasks : x.c = c} : ReportDone(t)
  \/ \E t \in {x \in msgTasks : x.c = c} : ReportFails(t)
  \/ \E i \in DOMAIN ops[c] : SSClientStarted(c, i)
  \/ \E i \in DOMAIN ops[c] : SSCreated(c, i)
  \/ \E i \in DOMAIN ops[c] : SSCreateFails(c, i)
  \/ \E i \in DOMAIN ops[c] : SSFailed(c, i)
  \/ EventNext(c)

\* Both chats send messages and commands; chat 1 is the owner.
OwnerNext == \E c \in Chats : OwnerChecked(c)

SpecOwner == Init /\ [][OwnerNext]_vars

\* Model selections alone, by both chats.
ModelsNext == \E c \in Chats : \E m \in ModelNames : SelectModel(c, m)

SpecModels == Init /\ [][ModelsNext]_vars

\* What must go on once it can: the pending calls resolve, the handlers run
\* on, and a session emits session.idle for every prompt it accepted.  Neither
\* the user's next prompt nor an assistant.message is owed.
Progress(c) ==
  \/ \E t \in {x \in msgTasks : x.c = c} :
       SendAccepted(t) \/ SendRejected(t) \/ ReportDone(t) \/ ReportFails(t)
  \/ \E t \in {x \in turns : x.c = c} : TurnIdle(t)
  \/ \E i \in DOMAIN drains[c] :
       \/ DrainLoop(c, i) \/ MessageDelivered(c, i) \/ DeferredNoticeShown(c, i)
       \/ IdleNoticeShown(c, i) \/ DrainSendAccepted(c, i) \/ DrainSendRejected(c, i)
       \/ DrainReportDone(c, i) \/ HandlerThrows(c, i)
  \/ \E i \in DOMAIN ops[c] :
       SSClientStarted(c, i) \/ SSCreated(c, i) \/ SSCreateFails(c, i) \/ SSFailed(c, i)

SpecLive == Init /\ [][SteadyNext]_vars /\ \A c \in SoloChats : WF_vars(Progress(c))

\* ---------------------------------------------------------------- claims
Range(seq) == {seq[i] : i \in DOMAIN seq}

\* The prompts of chat c handed to the send of session s whose turn has not
\* ended: the pending sends of both paths and the running turns.
InFlight(c, s) ==
  {t.p : t \in {x \in msgTasks : x.c = c /\ x.pc = "send" /\ x.s = s}}
  \cup {drains[c][i].p :
          i \in {j \in DOMAIN drains[c] : drains[c][j].pc = "idle_send" /\ drains[c][j].s = s}}
  \cup {t.p : t \in {x \in turns : x.c = c /\ x.s = s /\ ~x.idle}}

\* C1: for every chat, at most one prompt handed to the session's send is
\* still outstanding; counted per live session, which is the least the claim
\* asks.
OnePromptInFlight ==
  \A c \in Chats : \A s \in live : Cardinality(InFlight(c, s)) <= 1

\* C2: no prompt is handed to send while a prompt submitted earlier is still
\* waiting in the queue: the prompt a step sends is not later than any prompt
\* the queue held before the step.
NoOvertaking ==
  [][\A c \in DOMAIN chatStates :
       Len(sent'[c]) > Len(sent[c]) =>
         \A q \in Range(chatStates[c].queue) : sent'[c][Len(sent'[c])] <= q]_vars

\* Prompt p is on its way somewhere: in a queue, handed to a send, or running.
Pending(p) ==
  \/ \E c \in DOMAIN chatStates : p \in Range(chatStates[c].queue)
  \/ \E c \in Chats : p \in Range(sent[c])
  \/ \E t \in msgTasks : t.p = p
  \/ \E t \in turns : t.p = p

\* C3: a prompt submitted while resetting is true is never in the queue and is
\* never handed to a send, of the old session or of the new one.
ResettingPromptDropped ==
  \A p \in DOMAIN subm : subm[p].resetting => ~Pending(p)

\* C3's case: a prompt arrived during a reset of a chat with a session, the
\* reset completed, and a later prompt of the chat was sent to the new session.
ResettingPromptDroppedSeen ==
  \E p \in DOMAIN subm :
    /\ subm[p].resetting /\ subm[p].session /\ subm[p].dir
    /\ ~chatStates[subm[p].c].resetting
    /\ \E q \in Range(sent[subm[p].c]) : q > p

StartSessionPcs == {"ss_destroy", "ss_stop", "ss_start", "ss_create", "ss_failstop"}

\* C4: when a /reset or cmd_reset handler that called startSession ends,
\* whether startSession returned or threw, resetting is false.
ResettingClearedAfterReset ==
  [][\A c \in Chats : \A i \in DOMAIN ops[c] :
       (/\ ops[c][i].kind \in {"reset", "cmd_reset"}
        /\ ops[c][i].pc \in StartSessionPcs
        /\ ops'[c] = RemoveAt(ops[c], i))
       => ~chatStates'[c].resetting]_vars

\* C5: for one chat, at most one handleSessionEvent is between its start and
\* its return.
OneHandlerAtATime ==
  \A c \in Chats :
    Cardinality({i \in DOMAIN drains[c] : drains[c][i].pc # "loop"}) <= 1

\* A step of chat c in which the idle handler reaches its queue test with a
\* non-empty queue: the handler starts (from the emitting session or from the
\* event loop), or resumes after the completion notice.
IdleWithQueue(c) ==
  /\ Len(chatStates[c].queue) > 0
  /\ \/ /\ ~chatStates[c].processingEvents
        /\ \E t \in {x \in turns : x.c = c} : TurnIdle(t)
     \/ /\ Len(chatStates[c].eventQueue) > 0
        /\ Head(chatStates[c].eventQueue) = "idle"
        /\ \E i \in DOMAIN drains[c] : DrainLoop(c, i)
     \/ \E i \in DOMAIN drains[c] : IdleNoticeShown(c, i)

IdleSends(c) == Cardinality({i \in DOMAIN drains[c] : drains[c][i].pc = "idle_send"})

\* The step removes the queue head and hands it to send once.
HeadSent(c) ==
  /\ chatStates'[c].queue = Tail(chatStates[c].queue)
  /\ sent'[c] = Append(sent[c], Head(chatStates[c].queue))
  /\ IdleSends(c)' = IdleSends(c) + 1

QueueOnlyWhileBusy ==
  \A c \in DOMAIN chatStates : Len(chatStates[c].queue) > 0 => chatStates[c].busy

\* C8: a prompt in the queue is eventually handed to send, when no reset and
\* no switch follows and every accepted prompt gets its idle event.  Behaviours
\* in which the user submits MaxPrompts prompts are left aside, so that a
\* prompt found stuck is stuck while the user could still write.
QueuedEventuallySent ==
  \A c \in SoloChats : \A p \in 1..MaxPrompts :
    (Has(c) /\ p \in Range(chatStates[c].queue))
      ~> (p \in Range(sent[c]) \/ Len(subm) = MaxPrompts)

\* A step of chat c in which a handler whose send was rejected ends its catch
\* block, on either path.
SendFailureHandled(c) ==
  \/ \E t \in msgTasks : t.c = c /\ t.pc = "report" /\ t \notin msgTasks'
  \/ \E i \in DOMAIN drains[c] :
       /\ drains[c][i].pc = "idle_report"
       /\ i \in DOMAIN drains'[c]
       /\ drains'[c][i].pc # "idle_report"

\* C9: when the send of a prompt was rejected, the handler leaves the chat
\* with busy false and currentPrompt cleared.
RejectedSendClearsBusy ==
  [][\A c \in DOMAIN chatStates :
       SendFailureHandled(c) =>
         ~chatStates'[c].busy /\ chatStates'[c].currentPrompt = 0]_vars

\* C10: a prompt submitted to a chat with no session or no directory changes
\* nothing: no send, and the chat states (queue, busy, turnCount) as before.
NoSessionRejected ==
  [][(/\ Len(subm') > Len(subm)
      /\ ~(subm'[Len(subm')].session /\ subm'[Len(subm')].dir))
     => UNCHANGED <<chatStates, sent, msgTasks>>]_vars

\* C10's case: a prompt arrived at a chat that had run a turn and whose
\* session handle was null.
NoSessionRejectedSeen ==
  \E p \in DOMAIN subm :
    /\ ~subm[p].session
    /\ Has(subm[p].c)
    /\ chatStates[subm[p].c].turnCount > 0

\* The step is a prompt submission that found the chat with a session and a
\* directory and not resetting.
Accepted ==
  /\ Len(subm') > Len(subm)
  /\ subm'[Len(subm')].session
  /\ subm'[Len(subm')].dir
  /\ ~subm'[Len(subm')].resetting

\* C11: a prompt submitted to a chat with a session that is not resetting:
\* if busy is false, busy becomes true, currentPrompt the prompt, and send is
\* invoked once with it; if busy is true, the prompt goes to the end of the
\* queue, busy and currentPrompt stay, and no send is invoked.
DispatchSendsOrQueues ==
  [][Accepted =>
       LET p == Len(subm')
           c == subm'[p].c
       IN IF ~chatStates[c].busy
          THEN /\ chatStates'[c].busy
               /\ chatStates'[c].currentPrompt = p
               /\ chatStates'[c].queue = chatStates[c].queue
               /\ sent'[c] = Append(sent[c], p)
               /\ msgTasks' = msgTasks \cup
                    {[c |-> c, p |-> p, s |-> chatStates[c].session, pc |-> "send",
                      text |-> appendImagesToPrompt(p, chatStates[c].images)]}
          ELSE /\ chatStates'[c].queue = Append(chatStates[c].queue, p)
               /\ chatStates'[c].busy
               /\ chatStates'[c].currentPrompt = chatStates[c].currentPrompt
               /\ sent' = sent
               /\ msgTasks' = msgTasks]_vars

\* C11's case: a prompt was sent from idle, and two prompts that arrived while
\* busy wait in the queue.
DispatchSendsOrQueuesSeen ==
  \E c \in DOMAIN chatStates :
    /\ Len(chatStates[c].queue) = 2
    /\ \A q \in Range(chatStates[c].queue) : subm[q].busy
    /\ chatStates[c].currentPrompt # 0
    /\ ~subm[chatStates[c].currentPrompt].busy
    /\ chatStates[c].currentPrompt \in Range(sent[c])

ResetKinds == {"reset", "cmd_reset"}

\* The step is the reset request (either entry point) of chat c.
ResetRequested(c) ==
  /\ Len(ops'[c]) = Len(ops[c]) + 1
  /\ ops'[c][Len(ops'[c])].kind \in ResetKinds

\* The step is createSession resolving for the reset handler i of chat c.
ResetSucceeds(c, i) ==
  /\ ops[c][i].kind \in ResetKinds
  /\ ops[c][i].pc = "ss_create"
  /\ ops[c][i].id \in live' \ live

\* Prompt p waits in a queue or has been handed to a send.
QueuedOrSent(p) ==
  \/ \E c \in DOMAIN chatStates : p \in Range(chatStates[c].queue)
  \/ \E c \in Chats : p \in Range(sent[c])

\* C12: a reset request clears the queue, sets turnCount to 0 and asks for the
\* chat's directory and model; when its createSession resolves the chat has the
\* new session, created with that model, that directory recorded, an empty
\* queue and turnCount 0; and a prompt that left the queue unsent is never
\* sent later.
ResetGivesFreshSession ==
  [][/\ \A c \in DOMAIN chatStates :
          /\ ResetRequested(c) =>
               /\ chatStates'[c].queue = <<>>
               /\ chatStates'[c].turnCount = 0
               /\ ops'[c][Len(ops'[c])].dir = chatStates[c].dir
               /\ ops'[c][Len(ops'[c])].model = chatStates[c].model
          /\ \A i \in DOMAIN ops[c] :
               ResetSucceeds(c, i) =>
                 /\ chatStates'[c].session = ops[c][i].id
                 /\ chatStates'[c].dir = ops[c][i].dir
                 /\ chatStates'[c].queue = <<>>
                 /\ chatStates'[c].turnCount = 0
     /\ \A p \in DOMAIN subm : ~QueuedOrSent(p) => ~QueuedOrSent(p)']_vars

\* Turn t runs on a session of chat c that the chat's record no longer holds:
\* another session has taken its place.
Replaced(c, t) ==
  /\ t.c = c
  /\ chatStates[c].session # 0
  /\ t.s # chatStates[c].session

\* C13: when a session that has been replaced emits an event and the event is
\* handled at once, the chat's busy flag, currentPrompt and queue stay as they
\* were and no prompt is handed to a send.
LateEventIgnored ==
  [][\A c \in DOMAIN chatStates : \A t \in turns :
       (/\ Replaced(c, t)
        /\ ~chatStates[c].processingEvents
        /\ TurnIdle(t) \/ TurnMessage(t))
       => /\ chatStates'[c].busy = chatStates[c].busy
          /\ chatStates'[c].currentPrompt = chatStates[c].currentPrompt
          /\ chatStates'[c].queue = chatStates[c].queue
          /\ sent' = sent]_vars

\* The step is an operation of chat a: a prompt submission, a session event, a
\* lifecycle request, or the continuation of one of them.
ActsOn(a) == PromptNext(a) \/ EventNext(a) \/ LifecycleNext(a)

\* C14: an operation of chat a leaves the record of every other chat as it was
\* (busy, queue, model, directory, resetting, event queue and the rest).
OtherChatsUntouched ==
  [][\A a \in Chats : \A b \in DOMAIN chatStates :
       (a # b /\ ActsOn(a)) => chatStates'[b] = chatStates[b]]_vars

\* C14's case: chat 2 is busy with a prompt waiting in its queue while chat 1,
\* which has a session, is being reset.
OtherChatsUntouchedSeen ==
  /\ Has(1) /\ Has(2)
  /\ chatStates[2].busy
  /\ Len(chatStates[2].queue) > 0
  /\ chatStates[1].resetting
  /\ chatStates[1].session # 0

\* The step starts the handling of an idle event of chat c: the event is
\* emitted while no drain runs, or the event loop takes it from the queue.
IdleStarts(c) ==
  \/ /\ ~chatStates[c].processingEvents
     /\ \E t \in {x \in turns : x.c = c} : TurnIdle(t)
  \/ /\ Len(chatStates[c].eventQueue) > 0
     /\ Head(chatStates[c].eventQueue) = "idle"
     /\ \E i \in DOMAIN drains[c] : DrainLoop(c, i)

\* C15: an idle event is acted upon only after every event enqueued before it
\* has been fully handled: when its handling starts, no handler of the chat is
\* suspended half-way.
IdleAfterEarlierEvents ==
  [][\A c \in DOMAIN chatStates :
       IdleStarts(c) => \A i \in DOMAIN drains[c] : drains[c][i].pc = "loop"]_vars

SessionHasDir ==
  \A c \in DOMAIN chatStates : chatStates[c].session # 0 => chatStates[c].dir # 0

\* A chat holds the session of its second session start, in the directory that
\* start was given.
SessionHasDirSeen ==
  \E c \in DOMAIN chatStates :
    /\ chatStates[c].session > 1
    /\ chatStates[c].session <= MaxOps
    /\ chatStates[c].dir = 2
    /\ cwd = 2

\* C18: no reachable state of a chat has resetting and busy both true: a reset
\* forces busy false when it sets resetting, and nothing sets busy true until
\* resetting has been cleared.
NeverResettingAndBusy ==
  \A c \in DOMAIN chatStates : ~(chatStates[c].resetting /\ chatStates[c].busy)

\* A reset was requested while a prompt was being answered: the chat is
\* resetting and not busy although the turn of the prompt is still running.
NeverResettingAndBusySeen ==
  \E c \in DOMAIN chatStates :
    /\ chatStates[c].resetting
    /\ ~chatStates[c].busy
    /\ \E t \in turns : t.c = c /\ t.s = chatStates[c].session

EndsBeforeCreate(c, i) ==
  /\ ops[c][i].pc \in {"ss_destroy", "ss_stop", "r_abort", "cr_destroy"}
  /\ ops'[c] = RemoveAt(ops[c], i)

\* The set_dir handler of chat c calls startSession and has returned within
\* the same step: nothing was to be torn down and process.chdir threw.
EndsAtEntry(c) == ops' = ops /\ \E d \in Dirs : SetDir(c, d)

\* C20: when process.chdir throws inside startSession, the call fails (the
\* catch block of cmd_reset clears resetting), the process stays in its
\* directory, no client and no session is created or recorded, and the chat
\* keeps its record in the chat map.
ChdirFailureCreatesNothing ==
  [][/\ \A c \in Chats : \A i \in DOMAIN ops[c] :
          EndsBeforeCreate(c, i) =>
            /\ c \in DOMAIN chatStates'
            /\ chatStates'[c].session # ops[c][i].id
            /\ chatStates'[c].client # ops[c][i].id
            /\ chatStates'[c].dir = chatStates[c].dir
            /\ ops[c][i].kind = "cmd_reset" => ~chatStates'[c].resetting
            /\ cwd' = cwd
            /\ live' \subseteq live
     /\ \A c \in Chats :
          EndsAtEntry(c) =>
            /\ c \in DOMAIN chatStates'
            /\ chatStates'[c].session = 0
            /\ chatStates'[c].client = 0
            /\ c \in DOMAIN chatStates => chatStates'[c].dir = chatStates[c].dir
            /\ cwd' = cwd
            /\ live' = live]_vars

\* The chat's only session start so far failed at process.chdir: the chat has
\* a record without session, client and directory, and the process is where
\* it was.
ChdirFailureCreatesNothingSeen ==
  \E c \in DOMAIN chatStates :
    /\ opsUsed = 1
    /\ ops[c] = <<>>
    /\ chatStates[c].session = 0
    /\ chatStates[c].client = 0
    /\ chatStates[c].dir = 0
    /\ cwd = 0

\* C21: when startSession succeeds, the chat's state right after its store
\* has busy false, an empty prompt queue, resetting false, an empty event
\* queue, and the new session, the new client and the directory recorded.
StartLeavesCleanState ==
  [][\A c \in Chats : \A i \in DOMAIN ops[c] :
       SSCreated(c, i) =>
         LET op == ops[c][i]
             st == chatStates'[c]
         IN /\ ~st.busy
            /\ st.queue = <<>>
            /\ ~st.resetting
            /\ st.eventQueue = <<>>
            /\ st.session = op.id
            /\ st.client = op.id
            /\ st.dir = op.dir
            /\ op.id \in live']_vars

\* The second session start of a chat has succeeded after a prompt had been
\* sent on the first session: the chat holds the second session in its
\* directory, idle and with an empty queue, while the turn on the first
\* session is still running.
StartLeavesCleanStateSeen ==
  \E c \in DOMAIN chatStates :
    /\ chatStates[c].session = 2
    /\ chatStates[c].client = 2
    /\ chatStates[c].dir = 2
    /\ ~chatStates[c].busy
    /\ chatStates[c].queue = <<>>
    /\ ops[c] = <<>>
    /\ \E t \in turns : t.c = c /\ t.s = 1

\* C22: a reset request (/reset or the cmd_reset button) for a chat that has
\* no session is rejected: no session is created or destroyed, no handler is
\* left running, and the chat's state (queue, busy, resetting, turnCount and
\* everything else) is unchanged.
ResetWithoutSessionRejected ==
  [][\A c \in Chats :
       /\ ~(Has(c) /\ chatStates[c].session # 0)
       /\ Reset(c) \/ CmdReset(c)
       => /\ chatStates' = chatStates
          /\ ops' = ops
          /\ live' = live
          /\ turns' = turns
          /\ cwd' = cwd]_vars

\* Reset requests were handled for a chat that never got a state: the chat
\* still has none and no handler runs.
ResetWithoutSessionRejectedSeen ==
  \E c \in SoloChats :
    /\ ~Has(c)
    /\ opsUsed = MaxOps
    /\ ops[c] = <<>>

\* startSession has been entered by the reset handler i of chat c in this
\* step, with the directory and the model recorded at the request: the
\* handler is inside startSession, or startSession found nothing to tear down
\* and failed at process.chdir.
StartSessionCalled(c, i) ==
  \/ \E j \in DOMAIN ops'[c] :
       /\ ops'[c][j].id = ops[c][i].id
       /\ ops'[c][j].pc \in StartSessionPcs
       /\ ops'[c][j].dir = ops[c][i].dir
       /\ ops'[c][j].model = ops[c][i].model
  \/ /\ ops'[c] = RemoveAt(ops[c], i)
     /\ chatStates'[c].session = 0
     /\ chatStates'[c].client = 0

\* C23: during a reset (/reset or cmd_reset), whether aborting or destroying
\* the old session resolves or throws, startSession is then called with the
\* directory and the model recorded at the request.
ResetSurvivesTeardownError ==
  [][\A c \in Chats : \A i \in DOMAIN ops[c] :
       ResetAborted(c, i) \/ CmdResetDestroyed(c, i) \/ CmdResetDestroyFails(c, i)
         => StartSessionCalled(c, i)]_vars

\* The same for /reset alone.
ResetCommandSurvivesAbortError ==
  [][\A c \in Chats : \A i \in DOMAIN ops[c] :
       ResetAborted(c, i) => StartSessionCalled(c, i)]_vars

\* The startSession call of handler i of chat c has passed its teardown in
\* this step: it is at client.start() in the requested directory, or
\* process.chdir threw and the call has ended where the process was.
TeardownPassed(c, i) ==
  \/ /\ \E j \in DOMAIN ops'[c] :
          ops'[c][j].id = ops[c][i].id /\ ops'[c][j].pc = "ss_start"
     /\ cwd' = ops[c][i].dir
  \/ /\ ops'[c] = RemoveAt(ops[c], i)
     /\ cwd' = cwd

\* C24: when startSession finds a session, it destroys it and then stops the
\* client before it creates the new client, and whether destroy or stop
\* resolves or throws, the call goes on: the handles are cleared, the old
\* client is gone before client.start(), and the directory switch follows.
TeardownThenCreate ==
  [][\A c \in Chats : \A i \in DOMAIN ops[c] :
       /\ SSDestroyed(c, i) =>
            /\ chatStates'[c].session = 0
            /\ IF chatStates[c].client # 0
               THEN /\ \E j \in DOMAIN ops'[c] :
                         /\ ops'[c][j].id = ops[c][i].id
                         /\ ops'[c][j].pc = "ss_stop"
                         /\ ops'[c][j].dc = chatStates[c].client
                    /\ cwd' = cwd
               ELSE TeardownPassed(c, i)
       /\ SSStopped(c, i) =>
            /\ chatStates'[c].client = 0
            /\ ops[c][i].dc \notin live'
            /\ TeardownPassed(c, i)
       /\ ops[c][i].pc \in {"ss_start", "ss_create"} /\ ops[c][i].dc # 0 =>
            ops[c][i].dc \notin live]_vars

\* destroy() of the old session threw (the session is still alive) and
\* startSession has gone on to stop the old client.
TeardownThenCreateSeen ==
  \E c \in DOMAIN chatStates : \E i \in DOMAIN ops[c] :
    /\ ops[c][i].pc = "ss_stop"
    /\ ops[c][i].ds # 0
    /\ ops[c][i].ds \in live
    /\ chatStates[c].session = 0

\* The activation j of chat c takes a session.idle event in this step: a new
\* drain started by the event, or a running drain at its loop test.
IdleTakenBy(c, j) ==
  \/ /\ ~chatStates[c].processingEvents
     /\ j = Len(drains[c]) + 1
     /\ \E t \in {x \in turns : x.c = c} : TurnIdle(t)
  \/ /\ Len(chatStates[c].eventQueue) > 0
     /\ Head(chatStates[c].eventQueue) = "idle"
     /\ j \in DOMAIN drains[c]
     /\ DrainLoop(c, j)

\* C25: an idle event handled with an empty prompt queue and no final answer
\* outstanding makes its handler issue the completion notice, once: the
\* handler goes on from the notice to the queue test and its return, never to
\* a second notice.  With a final answer outstanding the handler issues no
\* notice and records the deferred completion.
CompletionNoticeAtIdle ==
  [][\A c \in DOMAIN chatStates :
       /\ \A j \in DOMAIN drains'[c] :
            IdleTakenBy(c, j) /\ chatStates[c].queue = <<>> =>
              IF chatStates[c].awaitingFinal
              THEN /\ drains'[c][j].pc = "loop"
                   /\ chatStates'[c].pendingCompletion
              ELSE /\ drains'[c][j].pc = "idle_status"
                   /\ chatStates'[c].pendingCompletion = chatStates[c].pendingCompletion
       /\ \A i \in DOMAIN drains[c] :
            IdleNoticeShown(c, i) \/ (drains[c][i].pc = "idle_status" /\ HandlerThrows(c, i)) =>
              drains'[c][i].pc \in {"loop", "idle_send"}]_vars

\* The handler of an idle event is issuing the completion notice: the queue
\* is empty, the answer has been delivered and the chat is no longer busy.
CompletionNoticeAtIdleSeen ==
  \E c \in DOMAIN chatStates : \E i \in DOMAIN drains[c] :
    /\ drains[c][i].pc = "idle_status"
    /\ chatStates[c].queue = <<>>
    /\ ~chatStates[c].awaitingFinal
    /\ ~chatStates[c].pendingCompletion
    /\ ~chatStates[c].busy

\* C26: a completion is deferred only by an idle event handled with a final
\* answer outstanding; the deferred notice is issued when the next final
\* answer has been delivered with the queue empty, and the deferral is
\* cleared in that same step, so the notice is not issued twice; and every
\* step that sends a prompt clears the deferral, so the notice is not issued
\* for a turn that started after it.
DeferredNoticeOnce ==
  [][\A c \in DOMAIN chatStates :
       /\ \A i \in DOMAIN drains[c] :
            /\ MessageDelivered(c, i) =>
                 IF chatStates[c].pendingCompletion /\ chatStates[c].queue = <<>>
                 THEN /\ drains'[c][i].pc = "msg_status"
                      /\ ~chatStates'[c].pendingCompletion
                 ELSE /\ drains'[c][i].pc = "loop"
                      /\ chatStates'[c].pendingCompletion = chatStates[c].pendingCompletion
            /\ drains[c][i].pc = "msg_status"
               /\ (DeferredNoticeShown(c, i) \/ HandlerThrows(c, i)) =>
                 drains'[c][i].pc = "loop"
       /\ (\E j \in DOMAIN drains'[c] : drains'[c][j].pc = "msg_status")
          /\ (\A i \in DOMAIN drains[c] : drains[c][i].pc # "msg_status")
            => \E i \in DOMAIN drains[c] : MessageDelivered(c, i)
       /\ sent'[c] # sent[c] => ~chatStates'[c].pendingCompletion
       /\ chatStates'[c].pendingCompletion /\ ~chatStates[c].pendingCompletion =>
            /\ chatStates[c].awaitingFinal
            /\ chatStates[c].queue = <<>>
            /\ \E j \in DOMAIN drains'[c] : IdleTakenBy(c, j)]_vars

\* The completion was deferred at an idle event and the final answer has
\* since been delivered: the handler of the answer is issuing the notice, the
\* deferral is cleared, and no prompt has been sent after the first.
DeferredNoticeOnceSeen ==
  \E c \in DOMAIN chatStates : \E i \in DOMAIN drains[c] :
    /\ drains[c][i].pc = "msg_status"
    /\ ~chatStates[c].pendingCompletion
    /\ ~chatStates[c].awaitingFinal
    /\ ~chatStates[c].busy
    /\ Len(sent[c]) = 1
    /\ turns = {}

\* The chats that hold a marker.
Holders == {c \in DOMAIN chatStates : chatStates[c].emoji # 0}

\* No two chats hold the same marker.
MarkersDiffer ==
  \A c, d \in Holders : c # d => chatStates[c].emoji # chatStates[d].emoji

\* C27: while fewer chats hold a marker than the pool has entries, the marker
\* that a state creation or a session start assigns differs from the marker
\* of every other chat, and no two chats hold the same marker.
MarkersUniqueUntilExhausted ==
  [][/\ \A c \in MarkerChats :
          /\ CreateWithEmoji(c) \/ RefreshEmoji(c)
          /\ Cardinality(Holders) < PoolSize
          => \A d \in Holders' \ {c} : chatStates'[d].emoji # chatStates'[c].emoji
     /\ Cardinality(Holders') < PoolSize => MarkersDiffer']_vars

\* The pool has just been used up: as many chats as the pool has entries hold
\* a marker each, all different, next to a chat whose state has none.
MarkersUniqueUntilExhaustedSeen ==
  /\ Cardinality(Holders) = PoolSize
  /\ MarkersDiffer
  /\ UsedEmojis = sessionEmojis
  /\ \E c \in DOMAIN chatStates : chatStates[c].emoji = 0

\* A marker is held twice, which the claim allows once the pool was used up.
MarkerReused == ~MarkersDiffer

\* C28: createSession is called, and resolves, while the working directory of
\* the process is the directory requested for the chat, so that the directory
\* stored for the chat is the one the process is in when its session exists,
\* however the session starts of different chats interleave.
SessionCreatedInItsDir ==
  [][\A c \in Chats : \A i \in DOMAIN ops[c] :
       /\ SSClientStarted(c, i) => cwd = ops[c][i].dir
       /\ SSCreated(c, i) => cwd = ops[c][i].dir /\ chatStates'[c].dir = cwd']_vars

\* The activation j of the event loop of chat c starts the send of a queued
\* prompt in this step.
DrainSendStarts(c, j) ==
  /\ drains'[c][j].pc = "idle_send"
  /\ j \in DOMAIN drains[c] => drains[c][j].pc # "idle_send"

\* C29: a prompt queued while the chat was busy is held in the queue as its
\* raw text; when an idle drains it, the text sent is that raw text with the
\* chat's image list as it is at the drain, whatever the list was when the
\* prompt was submitted; and no step of a send, direct or drained, takes an
\* image off the list.
QueuedPromptSentWithImagesAtDrain ==
  [][\A c \in DOMAIN chatStates :
       /\ \A k \in DOMAIN chatStates[c].queue : chatStates[c].queue[k] \in DOMAIN subm
       /\ \A j \in DOMAIN drains'[c] :
            DrainSendStarts(c, j) =>
              /\ chatStates[c].queue # <<>>
              /\ drains'[c][j].p = Head(chatStates[c].queue)
              /\ drains'[c][j].text =
                   appendImagesToPrompt(Head(chatStates[c].queue), chatStates[c].images)
              /\ chatStates'[c].queue = Tail(chatStates[c].queue)
       /\ c \in DOMAIN chatStates' =>
            /\ Len(chatStates'[c].images) >= Len(chatStates[c].images)
            /\ SubSeq(chatStates'[c].images, 1, Len(chatStates[c].images)) = chatStates[c].images
            /\ (\E t \in msgTasks : SendAccepted(t) \/ SendRejected(t))
                 \/ (\E i \in DOMAIN drains[c] : DrainSendAccepted(c, i) \/ DrainSendRejected(c, i))
                 \/ (\E j \in DOMAIN drains'[c] : DrainSendStarts(c, j))
                 \/ msgTasks' # msgTasks
                 => chatStates'[c].images = chatStates[c].images]_vars

\* A queued prompt is being sent with an image that was attached after the
\* prompt had been submitted.
QueuedPromptSentWithImagesAtDrainSeen ==
  \E c \in DOMAIN chatStates : \E j \in DOMAIN drains[c] :
    /\ drains[c][j].pc = "idle_send"
    /\ drains[c][j].text.images # <<>>
    /\ drains[c][j].text.images # subm[drains[c][j].p].images
    /\ chatStates[c].images = drains[c][j].text.images

\* C30: once SIGINT has been received the process exits, whether the destroy
\* of a session and the stop of a client resolve, reject or never settle.
ShutdownReachesExit == Signalled ~> Exited

\* The process has exited while the destroy of a chat's session had not
\* settled.
ShutdownReachesExitSeen ==
  /\ Exited
  /\ \E c \in Chats : \E i \in DOMAIN ops[c] :
       ops[c][i].kind = "shutdown" /\ ops[c][i].pc = "c_destroy"

RECURSIVE Concat(_)
\* The chunks joined in order.
Concat(chunks) == IF chunks = <<>> THEN <<>> ELSE Head(chunks) \o Concat(Tail(chunks))

\* C31: splitLongMessage(text, maxLen) with maxLen >= 1 terminates, every turn
\* of its loop making the remaining text shorter, and what it returns are
\* chunks that joined in order are the text, each chunk non-empty and at most
\* maxLen characters long; the empty text gives no chunks.
SplitGivesBoundedChunks ==
  [][\A t \in msgTasks : \A u \in msgTasks' :
       /\ t.pc = "loop" => Len(u.remaining) < Len(t.remaining) \/ u.pc = "returned"
       /\ u.pc = "returned" =>
            /\ Concat(u.chunks) = u.text
            /\ \A i \in DOMAIN u.chunks :
                 Len(u.chunks[i]) >= 1 /\ Len(u.chunks[i]) <= u.maxLen
            /\ u.text = <<>> => u.chunks = <<>>]_vars

\* A call has returned a text longer than the chunk length that was cut after
\* a newline and not at the full chunk length.
SplitGivesBoundedChunksSeen ==
  \E t \in msgTasks :
    /\ t.pc = "returned"
    /\ Len(t.chunks) >= 2
    /\ Len(t.chunks[1]) < t.maxLen
    /\ t.chunks[1][Len(t.chunks[1])] = Newline

\* A reset request of chat c is taken up in this step.
ResetTakenUp(c) == (Reset(c) \/ CmdReset(c)) /\ ops'[c] # ops[c]

NoSessionIdleAndEmpty ==
  \A c \in DOMAIN chatStates :
    chatStates[c].session = 0 => ~chatStates[c].busy /\ chatStates[c].queue = <<>>

\* C34: when a session start of a chat stores its session and no other start
\* of the chat is in progress, the model recorded for the chat is the model
\* that session was created with.
SessionHasRecordedModel ==
  [][\A c \in DOMAIN chatStates : \A i \in DOMAIN ops[c] :
       SSCreated(c, i) /\ ops'[c] = <<>> =>
         /\ chatStates'[c].session = ops[c][i].id
         /\ chatStates'[c].model = ops[c][i].model]_vars

\* C35: once every start, reset and model-switch request has completed, each
\* session that was created and has not been destroyed is the session some
\* chat's state records.
LiveSessionsOwned ==
  (\A c \in Chats : ops[c] = <<>>) =>
    \A s \in live : \E c \in DOMAIN chatStates : chatStates[c].session = s

\* The complete event of tool t is taken up in this step and is matched with
\* an entry, by its tool-call id or by its parent event id.
CompleteMatched(c, t) ==
  /\ ~toolLog[t].completing /\ toolLog'[t].completing
  /\ drains'[c] # <<>>

\* Handling a complete event that is matched stores the result under the
\* result key of the tool's start event and, when the handler returns, has
\* removed the entry.
CompleteStoresResult ==
  [][\A c \in DOMAIN chatStates : \A t \in Tools :
       /\ CompleteMatched(c, t) =>
            /\ drains'[c][1].entry.resultKey = ResultKey(t)
            /\ ResultKey(t) \in fullToolResults'
       /\ drains[c] # <<>> /\ ~toolLog[t].completed /\ toolLog'[t].completed =>
            \A e \in chatStates'[c].toolStartMessages : e.resultKey # ResultKey(t)]_vars

\* A reveal sends a result only once the complete event has been taken up.
RevealAfterComplete ==
  \A t \in Tools : toolLog[t].shown > 0 \/ ResultKey(t) \in fullToolResults => toolLog[t].completing

\* C36: for a tool's start event followed by its complete event, handling the
\* complete event stores the result under the start's result key and removes
\* the correlation entry; a reveal request for that key sends the stored
\* result only after the complete event was handled, and at most once.
ToolResultRevealedOnce ==
  /\ CompleteStoresResult
  /\ []RevealAfterComplete
  /\ [](\A t \in Tools : toolLog[t].shown <= 1)

\* A handler of chat c ends in this step because the bot.sendMessage it
\* awaited threw: the error report of a rejected send, or the notice of a
\* reset.
ReportThrows(c) ==
  \/ \E t \in {x \in msgTasks : x.c = c} : ReportFails(t)
  \/ \E i \in DOMAIN drains[c] : drains[c][i].pc = "idle_report" /\ HandlerThrows(c, i)

NoticeThrows(c) == \E i \in DOMAIN ops[c] : NoticeFails(c, i)

\* C37: when a handler ends because a notification could not be delivered,
\* the chat is busy only if a prompt handed to send is outstanding, and
\* resetting only if a reset of the chat is still in progress.
NotifyFailureLeavesNoFlag ==
  [][\A c \in DOMAIN chatStates :
       /\ ReportThrows(c) =>
            (chatStates'[c].busy => \E s \in 1 .. MaxOps + 1 : InFlight(c, s)' # {})
       /\ NoticeThrows(c) =>
            (chatStates'[c].resetting =>
               \E i \in DOMAIN ops'[c] : ops'[c][i].kind \in ResetKinds)]_vars

\* The part of C37 about the busy flag.
ReportFailureLeavesNotBusy ==
  [][\A c \in DOMAIN chatStates :
       ReportThrows(c) =>
         (chatStates'[c].busy => \E s \in 1 .. MaxOps + 1 : InFlight(c, s)' # {})]_vars

\* The step is the arrival of a message, a command or a button press from a
\* chat other than the owner.
NonOwnerInput ==
  \E c \in Chats \ {ownerChatId} :
    \/ SubmitPrompt(c) \/ MessageRefused(c)
    \/ (\E d \in Dirs : SetDir(c, d)) \/ CommandRefused

\* C38: with an owner configured, a chat other than the owner never gets a
\* chat state, a session start or reset, or a prompt sent, and a message, a
\* command or a button press coming from it leaves the chat states, the
\* handlers in progress, the sessions and the prompts sent as they were: the
\* runs that differ in such inputs only have the same chat states and the
\* same prompts sent.
NonOwnerChangesNothing ==
  [][/\ \A c \in Chats \ {ownerChatId} :
          /\ c \notin DOMAIN chatStates'
          /\ ops'[c] = <<>> /\ drains'[c] = <<>> /\ sent'[c] = <<>>
          /\ \A t \in msgTasks' \cup turns' : t.c # c
     /\ NonOwnerInput =>
          UNCHANGED <<chatStates, cwd, ops, drains, msgTasks, turns, live, sent>>]_vars

\* The owner has a session and a prompt sent while a message and a command
\* from the other chat were refused.
NonOwnerChangesNothingSeen ==
  /\ ownerChatId \in DOMAIN chatStates
  /\ chatStates[ownerChatId].session # 0
  /\ sent[ownerChatId] # <<>>
  /\ \E p \in DOMAIN subm : subm[p].c # ownerChatId
  /\ opsUsed = 2

\* The list has at most 2 entries and no model twice.
RecentModelsShort ==
  \A c \in DOMAIN chatStates :
    LET recent == chatStates[c].recentModels
    IN Len(recent) <= 2 /\ \A i, j \in DOMAIN recent : i # j => recent[i] # recent[j]

\* The model that a switch leaves is first in the list afterwards.
RecentModelsLeftFirst ==
  [][\A c \in DOMAIN chatStates :
       chatStates'[c].model # chatStates[c].model =>
         /\ chatStates'[c].recentModels # <<>>
         /\ chatStates'[c].recentModels[1] = chatStates[c].model]_vars

\* C39: after any sequence of model switches a chat's recentModels has at most
\* 2 entries, no duplicates, the most recently left model first, and not the
\* chat's current model.
RecentModelsExcludeCurrent ==
  /\ []RecentModelsShort
  /\ RecentModelsLeftFirst
  /\ [](\A c \in DOMAIN chatStates :
          \A i \in DOMAIN chatStates[c].recentModels :
            chatStates[c].recentModels[i] # chatStates[c].model)
====
